---- MODULE Spec2Model ----
(***************************************************************************)
(* A model of the FPL prediction pipeline: the collector, the processor,   *)
(* the feature engineer, the dataset creator, the trainer and main().      *)
(*                                                                         *)
(* JavaScript numbers are modelled as exact rationals extended with NaN,   *)
(* +Infinity, -Infinity and `undefined`; floating-point rounding is not    *)
(* modelled.  A square root that is not rational is kept symbolically.     *)
(***************************************************************************)
EXTENDS Integers, Sequences, FiniteSets, TLC

(***************************************************************************)
(* JavaScript numbers                                                      *)
(***************************************************************************)
RECURSIVE GCD(_, _)
GCD(a, b) == IF b = 0 THEN a ELSE GCD(b, a % b)

AbsInt(a) == IF a < 0 THEN -a ELSE a

\* the rational n/d (d # 0) in lowest terms with a positive denominator
Rat(n, d) ==
  LET g == GCD(AbsInt(n), AbsInt(d))
      s == IF d < 0 THEN -1 ELSE 1
  IN  [k |-> "num", n |-> (s * n) \div g, d |-> (s * d) \div g]

I(n) == [k |-> "num", n |-> n, d |-> 1]

NaN == [k |-> "nan", n |-> 0, d |-> 1]

PosInf == [k |-> "inf", n |-> 1, d |-> 1]

NegInf == [k |-> "inf", n |-> -1, d |-> 1]

\* the value of a property that is absent from a document
Undefined == [k |-> "undef", n |-> 0, d |-> 1]

Zero == I(0)

IsNum(x) == x.k = "num"

\* a defined, finite number: neither undefined, NaN nor an infinity
IsFinite(x) == x.k = "num"

\* ToNumber(undefined) is NaN
ToNum(x) == IF x.k = "undef" THEN NaN ELSE x

Sign(x) == IF x.n > 0 THEN 1 ELSE IF x.n < 0 THEN -1 ELSE 0

JsNeg(a) ==
  LET x == ToNum(a)
  IN  IF x.k = "nan" THEN NaN
      ELSE IF x.k = "inf" THEN [x EXCEPT !.n = -x.n]
      ELSE Rat(-x.n, x.d)

\* a + b
JsAdd(a, b) ==
  LET x == ToNum(a)
      y == ToNum(b)
  IN  IF x.k = "nan" \/ y.k = "nan" THEN NaN
      ELSE IF x.k = "inf" /\ y.k = "inf" THEN (IF x.n = y.n THEN x ELSE NaN)
      ELSE IF x.k = "inf" THEN x
      ELSE IF y.k = "inf" THEN y
      ELSE Rat(x.n * y.d + y.n * x.d, x.d * y.d)

\* a - b
JsSub(a, b) == JsAdd(a, JsNeg(b))

\* a * b
JsMul(a, b) ==
  LET x == ToNum(a)
      y == ToNum(b)
  IN  IF x.k = "nan" \/ y.k = "nan" THEN NaN
      ELSE IF x.k = "inf" \/ y.k = "inf"
           THEN (IF Sign(x) * Sign(y) = 0 THEN NaN
                 ELSE IF Sign(x) * Sign(y) > 0 THEN PosInf ELSE NegInf)
      ELSE Rat(x.n * y.n, x.d * y.d)

\* a / b: 0/0 is NaN, x/0 is an infinity
JsDiv(a, b) ==
  LET x == ToNum(a)
      y == ToNum(b)
  IN  IF x.k = "nan" \/ y.k = "nan" THEN NaN
      ELSE IF x.k = "inf" /\ y.k = "inf" THEN NaN
      ELSE IF x.k = "inf"
           THEN (IF Sign(x) * (IF y.n < 0 THEN -1 ELSE 1) > 0 THEN PosInf ELSE NegInf)
      ELSE IF y.k = "inf" THEN Zero
      ELSE IF y.n = 0
           THEN (IF x.n = 0 THEN NaN ELSE IF x.n > 0 THEN PosInf ELSE NegInf)
      ELSE Rat(x.n * y.d, x.d * y.n)

\* the truthiness of a number: undefined, NaN and 0 are falsy
Truthy(x) == ~(x.k = "undef" \/ x.k = "nan" \/ (x.k = "num" /\ x.n = 0))

\* a || b
JsOr(a, b) == IF Truthy(a) THEN a ELSE b

\* a < b (false whenever an operand is NaN)
JsLt(a, b) ==
  LET x == ToNum(a)
      y == ToNum(b)
  IN  IF x.k = "nan" \/ y.k = "nan" THEN FALSE
      ELSE IF x.k = "inf" /\ y.k = "inf" THEN x.n < y.n
      ELSE IF x.k = "inf" THEN x.n < 0
      ELSE IF y.k = "inf" THEN y.n > 0
      ELSE x.n * y.d < y.n * x.d

\* a > b
JsGt(a, b) == JsLt(b, a)

\* a <= b
JsLe(a, b) ==
  LET x == ToNum(a)
      y == ToNum(b)
  IN  IF x.k = "nan" \/ y.k = "nan" THEN FALSE ELSE ~JsLt(y, x)

\* a === b on numbers (NaN is not equal to itself)
JsEq(a, b) ==
  IF a.k = "undef" \/ b.k = "undef" THEN a.k = b.k
  ELSE IF a.k = "nan" \/ b.k = "nan" THEN FALSE
  ELSE a = b

\* Math.abs
MathAbs(a) ==
  LET x == ToNum(a)
  IN  IF x.k = "nan" THEN NaN
      ELSE IF x.k = "inf" THEN PosInf
      ELSE Rat(AbsInt(x.n), x.d)

\* Math.max
MathMax(a, b) ==
  LET x == ToNum(a)
      y == ToNum(b)
  IN  IF x.k = "nan" \/ y.k = "nan" THEN NaN
      ELSE IF JsLt(x, y) THEN y ELSE x

\* the integer square root of a natural number, when it has one
IsSquare(m) == \E r \in 0..m : r * r = m

IntSqrt(m) == CHOOSE r \in 0..m : r * r = m

\* Math.sqrt: exact for a rational square, symbolic otherwise
MathSqrt(a) ==
  LET x == ToNum(a)
  IN  IF x.k = "nan" THEN NaN
      ELSE IF x.k = "inf" THEN (IF x.n > 0 THEN PosInf ELSE NaN)
      ELSE IF x.n < 0 THEN NaN
      ELSE IF IsSquare(x.n) /\ IsSquare(x.d) THEN Rat(IntSqrt(x.n), IntSqrt(x.d))
      ELSE [k |-> "sqrt", n |-> x.n, d |-> x.d]

(***************************************************************************)
(* Arrays and strings                                                      *)
(***************************************************************************)
MinInt(a, b) == IF a < b THEN a ELSE b

MaxInt(a, b) == IF a > b THEN a ELSE b

\* Array.prototype.reduce((acc, item, index) => Op(acc, item, index), init)
Reduce(Op(_, _, _), init, s) ==
  LET f[i \in 0..Len(s)] == IF i = 0 THEN init ELSE Op(f[i - 1], s[i], i - 1)
  IN  f[Len(s)]

\* Array.prototype.filter
Filter(Test(_), s) == SelectSeq(s, Test)

\* Array.prototype.map
Map(F(_), s) == [i \in 1..Len(s) |-> F(s[i])]

\* s.slice(-k): the last k elements, or all of them when there are fewer
SliceLast(s, k) == SubSeq(s, MaxInt(1, Len(s) - k + 1), Len(s))

\* s.slice(0, k): the first k elements, or all of them when there are fewer
SliceFirst(s, k) == SubSeq(s, 1, MinInt(k, Len(s)))

\* a string is a tuple of characters; an absent string property is UndefStr
UndefStr == <<"undefined">>

Digits == <<"0", "1", "2", "3", "4", "5", "6", "7", "8", "9">>

IsDigit(c) == \E i \in 1..10 : Digits[i] = c

DigitVal(c) == (CHOOSE i \in 1..10 : Digits[i] = c) - 1

RECURSIVE Pow10(_)
Pow10(e) == IF e = 0 THEN 1 ELSE 10 * Pow10(e - 1)

\* the length of the run of digits of s that starts at position i
RECURSIVE DigitRun(_, _)
DigitRun(s, i) == IF i <= Len(s) /\ IsDigit(s[i]) THEN 1 + DigitRun(s, i + 1) ELSE 0

\* the value of the digits s[i..i+len-1]
RECURSIVE DigitsValue(_, _, _)
DigitsValue(s, i, len) ==
  IF len = 0 THEN 0
  ELSE DigitsValue(s, i, len - 1) * 10 + DigitVal(s[i + len - 1])

\* the number of leading blanks of s from position i
RECURSIVE BlankRun(_, _)
BlankRun(s, i) == IF i <= Len(s) /\ s[i] = " " THEN 1 + BlankRun(s, i + 1) ELSE 0

\* parseFloat: the longest decimal prefix (blanks, sign, digits, point, digits);
\* NaN when the string does not start with a number.  Exponents are not modelled.
parseFloat(s) ==
  LET b    == 1 + BlankRun(s, 1)
      neg  == b <= Len(s) /\ s[b] = "-"
      sgn  == b <= Len(s) /\ (s[b] = "-" \/ s[b] = "+")
      p    == IF sgn THEN b + 1 ELSE b
      il   == DigitRun(s, p)
      dot  == p + il <= Len(s) /\ s[p + il] = "."
      fl   == IF dot THEN DigitRun(s, p + il + 1) ELSE 0
      iv   == DigitsValue(s, p, il)
      fv   == DigitsValue(s, p + il + 1, fl)
      mag  == Rat(iv * Pow10(fl) + fv, Pow10(fl))
  IN  IF s = UndefStr \/ il + fl = 0 THEN NaN
      ELSE IF neg THEN JsNeg(mag) ELSE mag

\* s || "0" on strings: the empty string and an absent one are falsy
StrOrZero(s) == IF s = UndefStr \/ s = <<>> THEN <<"0">> ELSE s

(***************************************************************************)
(* DataProcessor.processPlayerData: one player summary to one processed    *)
(* player.  A summary is a record id, history, fixtures, history_past,     *)
(* value_form, value_season, points_per_game, selected_by_percent,         *)
(* now_cost, absent; `absent` names the array properties the document      *)
(* lacks.                                                                  *)
(***************************************************************************)
\* doc[name] || []
ArrOrEmpty(doc, name) == IF name \in doc.absent THEN <<>> ELSE doc[name]

AddTotalPoints(sum, gw, index) == JsAdd(sum, JsOr(gw.total_points, Zero))

AddMinutes(sum, gw, index) == JsAdd(sum, JsOr(gw.minutes, Zero))

AddGoalsScored(sum, gw, index) == JsAdd(sum, JsOr(gw.goals_scored, Zero))

AddAssists(sum, gw, index) == JsAdd(sum, JsOr(gw.assists, Zero))

AddCleanSheets(sum, gw, index) == JsAdd(sum, JsOr(gw.clean_sheets, Zero))

AddGoalsConceded(sum, gw, index) == JsAdd(sum, JsOr(gw.goals_conceded, Zero))

AddExpectedGoals(sum, gw, index) ==
  JsAdd(sum, parseFloat(StrOrZero(gw.expected_goals)))

AddExpectedAssists(sum, gw, index) ==
  JsAdd(sum, parseFloat(StrOrZero(gw.expected_assists)))

AddExpectedGoalInvolvements(sum, gw, index) ==
  JsAdd(sum, parseFloat(StrOrZero(gw.expected_goal_involvements)))

AddDifficulty(sum, fixture, index) == JsAdd(sum, JsOr(fixture.difficulty, Zero))

\* gamesPlayed > 0 ? total / gamesPlayed : 0
PerGame(total, gamesPlayed) ==
  IF gamesPlayed > 0 THEN JsDiv(total, I(gamesPlayed)) ELSE Zero

\* historyPast[historyPast.length - 1] || {}
LastPastSeason(historyPast) ==
  IF Len(historyPast) = 0
  THEN [total_points |-> Undefined, starts |-> Undefined]
  ELSE historyPast[Len(historyPast)]

\* lastSeason.total_points ? totalPoints / gamesPlayed /
\*   (lastSeason.total_points / (lastSeason.starts || 38)) : 1
SeasonOnSeason(lastSeason, totalPoints, gamesPlayed) ==
  IF Truthy(lastSeason.total_points)
  THEN JsDiv(JsDiv(totalPoints, I(gamesPlayed)),
             JsDiv(lastSeason.total_points, JsOr(lastSeason.starts, I(38))))
  ELSE I(1)

processPlayer(player) ==
  LET history       == ArrOrEmpty(player, "history")
      fixtures      == ArrOrEmpty(player, "fixtures")
      historyPast   == ArrOrEmpty(player, "history_past")
      totalPoints   == Reduce(AddTotalPoints, Zero, history)
      totalMinutes  == Reduce(AddMinutes, Zero, history)
      goalsScored   == Reduce(AddGoalsScored, Zero, history)
      assists       == Reduce(AddAssists, Zero, history)
      cleanSheets   == Reduce(AddCleanSheets, Zero, history)
      goalsConceded == Reduce(AddGoalsConceded, Zero, history)
      gamesPlayed   == Len(history)
      recentGames   == SliceLast(history, 5)
      recentPoints  == Reduce(AddTotalPoints, Zero, recentGames)
      lastSeason    == LastPastSeason(historyPast)
  IN  [ id                        |-> player.id,
        totalPoints               |-> totalPoints,
        averagePoints             |-> PerGame(totalPoints, gamesPlayed),
        form                      |-> PerGame(recentPoints, Len(recentGames)),
        valueForm                 |-> JsOr(player.value_form, Zero),
        valueSeason               |-> JsOr(player.value_season, Zero),
        pointsPerGame             |-> JsOr(player.points_per_game, Zero),
        selectedByPercent         |-> JsOr(player.selected_by_percent, Zero),
        now_cost                  |-> JsOr(player.now_cost, Zero),
        minutesPlayed             |-> totalMinutes,
        minutesPerGame            |-> PerGame(totalMinutes, gamesPlayed),
        goalsScored               |-> goalsScored,
        goalsPerGame              |-> PerGame(goalsScored, gamesPlayed),
        assists                   |-> assists,
        assistsPerGame            |-> PerGame(assists, gamesPlayed),
        cleanSheets               |-> cleanSheets,
        goalsConceded             |-> goalsConceded,
        xG  |-> JsDiv(Reduce(AddExpectedGoals, Zero, history), I(gamesPlayed)),
        xA  |-> JsDiv(Reduce(AddExpectedAssists, Zero, history), I(gamesPlayed)),
        xGI |-> JsDiv(Reduce(AddExpectedGoalInvolvements, Zero, history),
                      I(gamesPlayed)),
        upcomingFixtureDifficulty |->
          JsDiv(Reduce(AddDifficulty, Zero, SliceFirst(fixtures, 5)), I(5)),
        seasonOnSeasonPerformance |->
          SeasonOnSeason(lastSeason, totalPoints, gamesPlayed),
        lastSeasonPoints          |-> JsOr(lastSeason.total_points, Zero),
        history                   |-> history,
        fixtures                  |-> fixtures ]

(***************************************************************************)
(* FeatureEngineer: the per-player feature functions                       *)
(***************************************************************************)
\* a form over every game of the history in place of the last five
recentFormOfAllGames(history) ==
  IF Len(history) = 0 THEN Zero
  ELSE JsDiv(Reduce(AddTotalPoints, Zero, history), I(Len(history)))

calculateRecentForm(history) ==
  IF Len(history) = 0 THEN Zero
  ELSE LET recentGames == SliceLast(history, 5)
       IN  JsDiv(Reduce(AddTotalPoints, Zero, recentGames), I(Len(recentGames)))

AddNumber(sum, x, index) == JsAdd(sum, x)

PointsOrZero(game) == JsOr(game.total_points, Zero)

calculateConsistency(history) ==
  IF Len(history) = 0 THEN Zero
  ELSE LET points == Map(PointsOrZero, history)
           mean   == JsDiv(Reduce(AddNumber, Zero, points), I(Len(points)))
           SquaredDiff(pt) == JsMul(JsSub(pt, mean), JsSub(pt, mean))
           squaredDiffs == Map(SquaredDiff, points)
       IN  MathSqrt(JsDiv(Reduce(AddNumber, Zero, squaredDiffs), I(Len(points))))

calculateUpcomingFixtureDifficulty(fixtures) ==
  IF Len(fixtures) = 0 THEN Zero
  ELSE JsDiv(Reduce(AddDifficulty, Zero, SliceFirst(fixtures, 5)), I(5))

\* sum + game.total_points, without a default
AddRawPoints(sum, game, index) == JsAdd(sum, game.total_points)

WasHome(game) == game.was_home

WasAway(game) == ~game.was_home

calculateHomeAwayDelta(history) ==
  LET homePerformance == Reduce(AddRawPoints, Zero, Filter(WasHome, history))
      awayPerformance == Reduce(AddRawPoints, Zero, Filter(WasAway, history))
      homeGames == Len(Filter(WasHome, history))
      awayGames == Len(Filter(WasAway, history))
      homeAvg == JsDiv(homePerformance, JsOr(I(homeGames), I(1)))
      awayAvg == JsDiv(awayPerformance, JsOr(I(awayGames), I(1)))
  IN  JsSub(homeAvg, awayAvg)

\* weights = [0.1, 0.15, 0.2, 0.25, 0.3]; weights[index] past the end is undefined
weights == <<Rat(1, 10), Rat(3, 20), Rat(1, 5), Rat(1, 4), Rat(3, 10)>>

WeightAt(index) == IF index + 1 <= Len(weights) THEN weights[index + 1] ELSE Undefined

AddWeighted(trend, game, index) ==
  JsAdd(trend, JsMul(game.total_points, WeightAt(index)))

\* a trend over the first five games in place of the last five
formTrendOfFirstGames(currentSeason) ==
  Reduce(AddWeighted, Zero, SliceFirst(currentSeason, 5))

calculateFormTrend(currentSeason) ==
  Reduce(AddWeighted, Zero, SliceLast(currentSeason, 5))

calculateSeasonImprovement(lastSeason, currentSeason) ==
  LET lastSeasonAvg ==
        JsDiv(Reduce(AddRawPoints, Zero, lastSeason),
              JsOr(I(Len(lastSeason)), I(1)))
      currentSeasonAvg ==
        JsDiv(Reduce(AddRawPoints, Zero, currentSeason),
              JsOr(I(Len(currentSeason)), I(1)))
  IN  JsMul(JsDiv(JsSub(currentSeasonAvg, lastSeasonAvg), lastSeasonAvg), I(100))

MissedGame(game) == JsEq(game.minutes, Zero)

calculateInjuryProneness(history) ==
  LET injuryGames == Len(Filter(MissedGame, history))
  IN  JsMul(JsDiv(I(injuryGames), I(Len(history))), I(100))

calculatePriceChangeResilience(history) ==
  LET Changed(i) == ~JsEq(JsSub(history[i].value, history[i - 1].value), Zero)
      steps == {i \in 2..Len(history) : Changed(i)}
      PerfDiff(i) ==
        MathAbs(JsSub(history[i].total_points, history[i - 1].total_points))
      acc[i \in 1..MaxInt(1, Len(history))] ==
        IF i = 1 THEN Zero
        ELSE IF i \in steps THEN JsAdd(acc[i - 1], PerfDiff(i)) ELSE acc[i - 1]
      performanceChanges == acc[MaxInt(1, Len(history))]
      priceChanges == Cardinality(steps)
  IN  IF priceChanges = 0 THEN Zero
      ELSE JsDiv(performanceChanges, I(priceChanges))

AddTeamImpact(impact, game, index) ==
  LET teamScore == JsAdd(game.team_h_score, game.team_a_score)
  IN  JsAdd(impact, JsDiv(JsAdd(game.goals_scored, game.assists),
                          JsOr(teamScore, I(1))))

calculateTeamImpact(history) ==
  JsDiv(Reduce(AddTeamImpact, Zero, history), I(Len(history)))

AddAdjusted(adjustedPerformance, game, index) ==
  LET difficultyFactor == JsDiv(game.difficulty, I(3))
  IN  JsAdd(adjustedPerformance, JsMul(game.total_points, difficultyFactor))

adjustPerformanceForDifficulty(history) ==
  JsDiv(Reduce(AddAdjusted, Zero, history), I(Len(history)))

AddBonus(sum, game, index) == JsAdd(sum, game.bonus)

LastSeasonGame(game) == JsLe(game.round, I(38))

CurrentSeasonGame(game) == JsGt(game.round, I(38))

\* the saves property of a processed player: processPlayerData stores none
PlayerSaves(player) == Undefined

\* player.minutesPlayed / 90 || 1
GamesOf90(player) == JsOr(JsDiv(player.minutesPlayed, I(90)), I(1))

bonusPointsPerGame(player) ==
  JsDiv(Reduce(AddBonus, Zero, player.history), I(Len(player.history)))

savePercentage(player) ==
  JsDiv(PlayerSaves(player),
        JsOr(JsAdd(PlayerSaves(player), player.goalsConceded), I(1)))

\* the map callback of createPlayerFeatures
playerFeature(player) ==
  LET lastSeason    == Filter(LastSeasonGame, player.history)
      currentSeason == Filter(CurrentSeasonGame, player.history)
  IN  [ id                        |-> player.id,
        recentFormScore           |-> calculateRecentForm(player.history),
        pricePerformanceRatio     |->
          JsDiv(player.totalPoints, JsOr(player.now_cost, I(1))),
        consistencyScore          |-> calculateConsistency(player.history),
        upcomingFixtureDifficulty |->
          calculateUpcomingFixtureDifficulty(player.fixtures),
        goalContribution          |-> JsAdd(player.goalsScored, player.assists),
        goalContributionPerGame   |->
          JsDiv(JsAdd(player.goalsScored, player.assists), GamesOf90(player)),
        xGOverPerformance         |-> JsSub(player.goalsScored, player.xG),
        xAOverPerformance         |-> JsSub(player.assists, player.xA),
        minutesPlayedPercentage   |->
          JsMul(JsDiv(player.minutesPlayed, I(38 * 90)), I(100)),
        homeAwayPerformanceDelta  |-> calculateHomeAwayDelta(player.history),
        formTrend                 |-> calculateFormTrend(currentSeason),
        seasonOnSeasonImprovement |->
          calculateSeasonImprovement(lastSeason, currentSeason),
        injuryProneness           |-> calculateInjuryProneness(player.history),
        bigChanceInvolvement      |->
          JsDiv(JsAdd(player.xG, player.xA), GamesOf90(player)),
        priceChangeResilience     |->
          calculatePriceChangeResilience(player.history),
        teamPerformanceImpact     |-> calculateTeamImpact(player.history),
        difficultyAdjustedPerformance |->
          adjustPerformanceForDifficulty(player.history),
        cleanSheetContribution    |->
          JsDiv(player.cleanSheets, GamesOf90(player)),
        savePercentage            |-> savePercentage(player),
        bonusPointsPerGame        |-> bonusPointsPerGame(player) ]

(***************************************************************************)
(* DataProcessor.processFixtureData and processTeamData                    *)
(* A raw fixture is a record id, event, team_h, team_a, team_h_difficulty, *)
(* team_a_difficulty, kickoff_time, finished, started, minutes,            *)
(* team_h_score, team_a_score, stats, pulse_id, absent.  A stat entry is   *)
(* a record identifier, h, a, absent, where h and a list {value, element}. *)
(***************************************************************************)
AddValue(sum, item, index) == JsAdd(sum, item.value)

\* the number of items listed for a side, in place of the sum of their values
countStat(stats, identifier, team) ==
  LET hits == {i \in 1..Len(stats) : stats[i].identifier = identifier}
  IN  IF hits = {} THEN Zero
      ELSE LET entry == stats[CHOOSE i \in hits : \A j \in hits : i <= j]
           IN  IF team \in entry.absent THEN Zero
               ELSE I(Len(entry[team]))

\* stats.find(s => s.identifier === identifier)?.[team]?.reduce(...) || 0
sumStat(stats, identifier, team) ==
  LET hits == {i \in 1..Len(stats) : stats[i].identifier = identifier}
  IN  IF hits = {} THEN Zero
      ELSE LET entry == stats[CHOOSE i \in hits : \A j \in hits : i <= j]
           IN  IF team \in entry.absent THEN Zero
               ELSE JsOr(Reduce(AddValue, Zero, entry[team]), Zero)

processFixture(fixture) ==
  LET stats == ArrOrEmpty(fixture, "stats")
  IN  [ id                  |-> fixture.id,
        event               |-> fixture.event,
        teamH               |-> fixture.team_h,
        teamA               |-> fixture.team_a,
        teamHDifficulty     |-> fixture.team_h_difficulty,
        teamADifficulty     |-> fixture.team_a_difficulty,
        kickoffTime         |-> fixture.kickoff_time,
        finished            |-> fixture.finished,
        started             |-> fixture.started,
        minutes             |-> fixture.minutes,
        teamHScore          |-> fixture.team_h_score,
        teamAScore          |-> fixture.team_a_score,
        homeGoals           |-> sumStat(stats, "goals_scored", "h"),
        awayGoals           |-> sumStat(stats, "goals_scored", "a"),
        homeAssists         |-> sumStat(stats, "assists", "h"),
        awayAssists         |-> sumStat(stats, "assists", "a"),
        homeOwnGoals        |-> sumStat(stats, "own_goals", "h"),
        awayOwnGoals        |-> sumStat(stats, "own_goals", "a"),
        homePenaltiesSaved  |-> sumStat(stats, "penalties_saved", "h"),
        awayPenaltiesSaved  |-> sumStat(stats, "penalties_saved", "a"),
        homePenaltiesMissed |-> sumStat(stats, "penalties_missed", "h"),
        awayPenaltiesMissed |-> sumStat(stats, "penalties_missed", "a"),
        homeYellowCards     |-> sumStat(stats, "yellow_cards", "h"),
        awayYellowCards     |-> sumStat(stats, "yellow_cards", "a"),
        homeRedCards        |-> sumStat(stats, "red_cards", "h"),
        awayRedCards        |-> sumStat(stats, "red_cards", "a"),
        homeSaves           |-> sumStat(stats, "saves", "h"),
        awaySaves           |-> sumStat(stats, "saves", "a"),
        homeBonus           |-> sumStat(stats, "bonus", "h"),
        awayBonus           |-> sumStat(stats, "bonus", "a"),
        homeBps             |-> sumStat(stats, "bps", "h"),
        awayBps             |-> sumStat(stats, "bps", "a"),
        pulseId             |-> fixture.pulse_id ]

processTeam(team) ==
  [ id                      |-> team.id,
    code                    |-> team.code,
    name                    |-> team.name,
    shortName               |-> team.short_name,
    strength                |-> team.strength,
    form                    |-> team.form,
    position                |-> team.position,
    played                  |-> team.played,
    points                  |-> team.points,
    won                     |-> team.win,
    drawn                   |-> team.draw,
    lost                    |-> team.loss,
    strengthOverallHome     |-> team.strength_overall_home,
    strengthOverallAway     |-> team.strength_overall_away,
    strengthAttackHome      |-> team.strength_attack_home,
    strengthAttackAway      |-> team.strength_attack_away,
    strengthDefenceHome     |-> team.strength_defence_home,
    strengthDefenceAway     |-> team.strength_defence_away,
    averageOverallStrength  |->
      JsDiv(JsAdd(team.strength_overall_home, team.strength_overall_away), I(2)),
    averageAttackStrength   |->
      JsDiv(JsAdd(team.strength_attack_home, team.strength_attack_away), I(2)),
    averageDefenceStrength  |->
      JsDiv(JsAdd(team.strength_defence_home, team.strength_defence_away), I(2)),
    overallStrengthHomeBias |->
      JsSub(team.strength_overall_home, team.strength_overall_away),
    attackStrengthHomeBias  |->
      JsSub(team.strength_attack_home, team.strength_attack_away),
    defenceStrengthHomeBias |->
      JsSub(team.strength_defence_home, team.strength_defence_away),
    unavailable             |-> team.unavailable,
    pulseId                 |-> team.pulse_id ]

(***************************************************************************)
(* FeatureEngineer: the per-fixture feature functions                      *)
(***************************************************************************)
\* what team?.property yields when teams.find found no team
NoTeam ==
  [ id |-> Undefined, code |-> Undefined, name |-> UndefStr,
    shortName |-> UndefStr, strength |-> Undefined, form |-> Undefined,
    position |-> Undefined, played |-> Undefined, points |-> Undefined,
    won |-> Undefined, drawn |-> Undefined, lost |-> Undefined,
    strengthOverallHome |-> Undefined, strengthOverallAway |-> Undefined,
    strengthAttackHome |-> Undefined, strengthAttackAway |-> Undefined,
    strengthDefenceHome |-> Undefined, strengthDefenceAway |-> Undefined,
    averageOverallStrength |-> Undefined, averageAttackStrength |-> Undefined,
    averageDefenceStrength |-> Undefined, overallStrengthHomeBias |-> Undefined,
    attackStrengthHomeBias |-> Undefined, defenceStrengthHomeBias |-> Undefined,
    unavailable |-> FALSE, pulseId |-> Undefined ]

\* teams.find(team => team.id === id)
FindTeam(teams, id) ==
  LET hits == {i \in 1..Len(teams) : JsEq(teams[i].id, id)}
  IN  IF hits = {} THEN NoTeam
      ELSE teams[CHOOSE i \in hits : \A j \in hits : i <= j]

\* 1.25 is an average number of goals
AverageGoals == Rat(5, 4)

calculateExpectedGoals(homeTeam, awayTeam) ==
  LET homeAttack  == JsOr(homeTeam.strengthAttackHome, I(1000))
      awayDefense == JsOr(awayTeam.strengthDefenceAway, I(1000))
      awayAttack  == JsOr(awayTeam.strengthAttackAway, I(1000))
      homeDefense == JsOr(homeTeam.strengthDefenceHome, I(1000))
      homeExpectedGoals == JsMul(JsDiv(homeAttack, awayDefense), AverageGoals)
      awayExpectedGoals == JsMul(JsDiv(awayAttack, homeDefense), AverageGoals)
  IN  JsAdd(homeExpectedGoals, awayExpectedGoals)

calculateHomeFactor(team) ==
  JsDiv(JsOr(team.strengthOverallHome, I(1000)),
        JsOr(team.averageOverallStrength, I(1000)))

calculateAwayFactor(team) ==
  JsDiv(JsOr(team.strengthOverallAway, I(1000)),
        JsOr(team.averageOverallStrength, I(1000)))

calculateExpectedTeamGoals(attackStrength, opponentDefenseStrength) ==
  JsMul(JsDiv(attackStrength, opponentDefenseStrength), AverageGoals)

\* a position strength without the floor of 0.05
positionStrengthUnfloored(position) ==
  JsSub(I(1), JsDiv(JsSub(position, I(1)), I(19)))

calculatePositionStrength(position) ==
  MathMax(Rat(1, 20), JsSub(I(1), JsDiv(JsSub(position, I(1)), I(19))))

\* Math.exp(-x), kept symbolically unless x is 0, NaN or infinite
MathExpNeg(a) ==
  LET x == ToNum(a)
  IN  IF x.k = "nan" THEN NaN
      ELSE IF x.k = "inf" THEN (IF x.n > 0 THEN Zero ELSE PosInf)
      ELSE IF x.n = 0 THEN I(1)
      ELSE [k |-> "expneg", n |-> x.n, d |-> x.d]

calculateExpectedCleanSheet(defenseStrength, opponentAttackStrength) ==
  MathExpNeg(calculateExpectedTeamGoals(opponentAttackStrength, defenseStrength))

calculateExpectedCards(homeDifficulty, awayDifficulty) ==
  LET averageDifficulty == JsDiv(JsAdd(homeDifficulty, awayDifficulty), I(2))
  IN  JsMul(JsDiv(averageDifficulty, I(5)), I(3))

calculatePreviousPerformance(team) ==
  LET gamesPlayed == JsOr(team.played, Zero)
  IN  IF JsEq(gamesPlayed, Zero) THEN Zero
      ELSE LET pointsPerGame == JsDiv(JsOr(team.points, Zero), gamesPlayed)
               goalDifference == JsSub(JsOr(team.won, Zero), JsOr(team.lost, Zero))
               goalDifferencePerGame == JsDiv(goalDifference, gamesPlayed)
           IN  JsAdd(JsMul(pointsPerGame, Rat(7, 10)),
                     JsMul(goalDifferencePerGame, Rat(3, 10)))

\* a derby test with the threshold excluded
isDerbyBelowThreshold(homeTeam, awayTeam) ==
  LET codeDifference ==
        MathAbs(JsSub(JsOr(homeTeam.code, Zero), JsOr(awayTeam.code, Zero)))
  IN  JsLt(codeDifference, I(3))

isDerbyMatch(homeTeam, awayTeam) ==
  LET codeDifference ==
        MathAbs(JsSub(JsOr(homeTeam.code, Zero), JsOr(awayTeam.code, Zero)))
  IN  JsLe(codeDifference, I(3))

\* a result that gives a level score to the home side
homeWinsLevelScore(fixture) ==
  IF JsLt(fixture.homeGoals, fixture.awayGoals) THEN "A" ELSE "H"

getActualResult(fixture) ==
  IF JsGt(fixture.homeGoals, fixture.awayGoals) THEN "H"
  ELSE IF JsLt(fixture.homeGoals, fixture.awayGoals) THEN "A"
  ELSE "D"

\* an object-valued property that is null
NullGoals == [isNull |-> TRUE, home |-> Undefined, away |-> Undefined]

NullCards == [isNull |-> TRUE, yellow |-> Undefined, red |-> Undefined]

\* the map callback of createFixtureFeatures
fixtureFeature(fixture, teams) ==
  LET homeTeam == FindTeam(teams, fixture.teamH)
      awayTeam == FindTeam(teams, fixture.teamA)
  IN  [ id                   |-> fixture.id,
        event                |-> fixture.event,
        homeTeamStrength     |-> JsOr(homeTeam.strength, Zero),
        awayTeamStrength     |-> JsOr(awayTeam.strength, Zero),
        strengthDifference   |->
          JsSub(JsOr(homeTeam.strength, Zero), JsOr(awayTeam.strength, Zero)),
        expectedGoals        |-> calculateExpectedGoals(homeTeam, awayTeam),
        homeAttackStrength   |-> JsOr(homeTeam.strengthAttackHome, Zero),
        awayAttackStrength   |-> JsOr(awayTeam.strengthAttackAway, Zero),
        homeDefenseStrength  |-> JsOr(homeTeam.strengthDefenceHome, Zero),
        awayDefenseStrength  |-> JsOr(awayTeam.strengthDefenceAway, Zero),
        homeOverallStrength  |-> JsOr(homeTeam.strengthOverallHome, Zero),
        awayOverallStrength  |-> JsOr(awayTeam.strengthOverallAway, Zero),
        homeFactor           |-> calculateHomeFactor(homeTeam),
        awayFactor           |-> calculateAwayFactor(awayTeam),
        expectedHomeGoals    |->
          calculateExpectedTeamGoals(JsOr(homeTeam.strengthAttackHome, Zero),
                                     JsOr(awayTeam.strengthDefenceAway, Zero)),
        expectedAwayGoals    |->
          calculateExpectedTeamGoals(JsOr(awayTeam.strengthAttackAway, Zero),
                                     JsOr(homeTeam.strengthDefenceHome, Zero)),
        homeFormFactor       |-> JsOr(homeTeam.form, Zero),
        awayFormFactor       |-> JsOr(awayTeam.form, Zero),
        homePositionStrength |->
          calculatePositionStrength(JsOr(homeTeam.position, Zero)),
        awayPositionStrength |->
          calculatePositionStrength(JsOr(awayTeam.position, Zero)),
        difficultyRating     |->
          JsDiv(JsAdd(fixture.teamHDifficulty, fixture.teamADifficulty), I(2)),
        expectedCleanSheetHome |->
          calculateExpectedCleanSheet(JsOr(homeTeam.strengthDefenceHome, Zero),
                                      JsOr(awayTeam.strengthAttackAway, Zero)),
        expectedCleanSheetAway |->
          calculateExpectedCleanSheet(JsOr(awayTeam.strengthDefenceAway, Zero),
                                      JsOr(homeTeam.strengthAttackHome, Zero)),
        expectedCards        |->
          calculateExpectedCards(fixture.teamHDifficulty, fixture.teamADifficulty),
        homePreviousPerformance |-> calculatePreviousPerformance(homeTeam),
        awayPreviousPerformance |-> calculatePreviousPerformance(awayTeam),
        isDerby              |-> isDerbyMatch(homeTeam, awayTeam),
        actualResult         |->
          IF fixture.finished THEN getActualResult(fixture) ELSE "null",
        actualGoals          |->
          IF fixture.finished
          THEN [isNull |-> FALSE, home |-> fixture.homeGoals,
                away |-> fixture.awayGoals]
          ELSE NullGoals,
        actualCards          |->
          IF fixture.finished
          THEN [isNull |-> FALSE,
                yellow |-> JsAdd(fixture.homeYellowCards, fixture.awayYellowCards),
                red |-> JsAdd(fixture.homeRedCards, fixture.awayRedCards)]
          ELSE NullCards ]

(***************************************************************************)
(* DatasetCreator, ModelTrainer and Predictor                              *)
(***************************************************************************)
\* one training row; `draw` is the value Math.random() returned for it
trainingRow(player, fixture, draw) ==
  [ playerId                  |-> player.id,
    fixtureId                 |-> fixture.id,
    recentFormScore           |-> player.recentFormScore,
    pricePerformanceRatio     |-> player.pricePerformanceRatio,
    consistencyScore          |-> player.consistencyScore,
    upcomingFixtureDifficulty |-> player.upcomingFixtureDifficulty,
    homeTeamStrength          |-> fixture.homeTeamStrength,
    awayTeamStrength          |-> fixture.awayTeamStrength,
    strengthDifference        |-> fixture.strengthDifference,
    expectedGoals             |-> fixture.expectedGoals,
    actualPoints              |-> JsMul(draw, I(20)) ]

\* a single loop that pairs the k-th player with the k-th fixture
combineAligned(playerFeatures, fixtureFeatures, draws) ==
  [ k \in 1..MinInt(Len(playerFeatures), Len(fixtureFeatures)) |->
      trainingRow(playerFeatures[k], fixtureFeatures[k], draws[k]) ]

\* for (player of playerFeatures) for (fixture of fixtureFeatures) push(row);
\* draws[k] is the k-th value Math.random() returns
combinePlayerAndFixtureData(playerFeatures, fixtureFeatures, draws) ==
  [ k \in 1..(Len(playerFeatures) * Len(fixtureFeatures)) |->
      trainingRow(playerFeatures[((k - 1) \div Len(fixtureFeatures)) + 1],
                  fixtureFeatures[((k - 1) % Len(fixtureFeatures)) + 1],
                  draws[k]) ]

\* the same eight fields with the first two the other way round
trainingInputReordered(item) ==
  << item.pricePerformanceRatio, item.recentFormScore, item.consistencyScore,
     item.upcomingFixtureDifficulty, item.homeTeamStrength,
     item.awayTeamStrength, item.strengthDifference, item.expectedGoals >>

\* the input vector prepareData builds from one training row
trainingInput(item) ==
  << item.recentFormScore, item.pricePerformanceRatio, item.consistencyScore,
     item.upcomingFixtureDifficulty, item.homeTeamStrength,
     item.awayTeamStrength, item.strengthDifference, item.expectedGoals >>

ActualPoints(item) == item.actualPoints

prepareData(data) ==
  [inputs |-> Map(trainingInput, data), labels |-> Map(ActualPoints, data)]

\* createModel: the first dense layer declares inputShape [8]
inputShape == 8

\* the input tensor predictPlayerPoints builds
predictionInput(playerFeatures, fixtureFeatures) ==
  << playerFeatures.recentFormScore, playerFeatures.pricePerformanceRatio,
     playerFeatures.consistencyScore, playerFeatures.upcomingFixtureDifficulty,
     fixtureFeatures.homeTeamStrength, fixtureFeatures.awayTeamStrength,
     fixtureFeatures.strengthDifference, fixtureFeatures.expectedGoals >>

(***************************************************************************)
(* The document store.  db maps a collection name to the sequence of its   *)
(* documents.  An operation that the store rejects has no effect.          *)
(***************************************************************************)
RawCollections ==
  {"bootstrap_static", "teams", "players", "gameweeks", "elements_types",
   "fixtures", "player_summaries", "gameweek_live"}

DerivedCollections ==
  {"processed_players", "processed_fixtures", "processed_teams",
   "player_features", "fixture_features", "training_dataset"}

Collections == RawCollections \cup DerivedCollections

EmptyDb == [c \in Collections |-> <<>>]

\* a deleteMany that removes nothing
deleteNone(d, c) == d

\* collection.deleteMany({})
deleteMany(d, c) == [d EXCEPT ![c] = <<>>]

\* collection.insertMany(docs): the driver rejects an empty batch
insertManyThrows(docs) == Len(docs) = 0

insertMany(d, c, docs) == [d EXCEPT ![c] = @ \o docs]

\* collection.insertOne(doc)
insertOne(d, c, doc) == [d EXCEPT ![c] = Append(@, doc)]

\* collection.countDocuments()
countDocuments(d, c) == Len(d[c])

\* collection.updateOne({id: id}, {$set: doc}, {upsert: true}); doc carries id
upsertById(d, c, doc) ==
  LET hits == {i \in 1..Len(d[c]) : d[c][i].id = doc.id}
  IN  IF hits = {} THEN [d EXCEPT ![c] = Append(@, doc)]
      ELSE [d EXCEPT ![c][CHOOSE i \in hits : \A j \in hits : i <= j] = doc]

(***************************************************************************)
(* Upstream data.  The FPL API is outside the program; what it returns is  *)
(* drawn from the small sets below.                                        *)
(***************************************************************************)
Game(round, points, minutes, goals, assists, bonus, value, home, xg) ==
  [ round |-> I(round), total_points |-> I(points), minutes |-> I(minutes),
    goals_scored |-> I(goals), assists |-> I(assists),
    clean_sheets |-> I(IF minutes > 0 /\ goals = 0 THEN 1 ELSE 0),
    goals_conceded |-> I(IF home THEN 0 ELSE 2), bonus |-> I(bonus),
    expected_goals |-> xg, expected_assists |-> <<"0", ".", "2", "5">>,
    expected_goal_involvements |-> xg, value |-> I(value), was_home |-> home,
    difficulty |-> I(IF home THEN 2 ELSE 4),
    team_h_score |-> I(goals), team_a_score |-> I(IF home THEN 0 ELSE 2) ]

\* a game entry whose optional properties are absent
SparseGame ==
  [ round |-> I(39), total_points |-> Undefined, minutes |-> Undefined,
    goals_scored |-> Undefined, assists |-> Undefined,
    clean_sheets |-> Undefined, goals_conceded |-> Undefined,
    bonus |-> Undefined, expected_goals |-> UndefStr,
    expected_assists |-> <<>>, expected_goal_involvements |-> <<"n", "/", "a">>,
    value |-> I(50), was_home |-> FALSE, difficulty |-> I(3),
    team_h_score |-> Undefined, team_a_score |-> Undefined ]

GamePool ==
  << Game(39, 6, 90, 1, 0, 2, 55, TRUE, <<"0", ".", "5">>),
     Game(40, 2, 0, 0, 0, 0, 56, FALSE, <<"0">>),
     Game(38, 9, 90, 1, 1, 3, 54, TRUE, <<"1", ".", "2", "5">>),
     SparseGame,
     Game(41, 1, 45, 0, 0, 0, 56, FALSE, <<"0", ".", "1">>),
     Game(42, 12, 90, 2, 1, 3, 57, TRUE, <<"1">>) >>

Upcoming(difficulty) == [difficulty |-> difficulty]

UpcomingPool ==
  { <<>>, <<Upcoming(I(2)), Upcoming(I(4))>>,
    <<Upcoming(I(5)), Upcoming(I(3)), Upcoming(Undefined), Upcoming(I(2)),
      Upcoming(I(4)), Upcoming(I(5))>> }

PastPool ==
  { <<>>, <<[total_points |-> I(152), starts |-> I(38)]>>,
    <<[total_points |-> I(90), starts |-> I(30)],
      [total_points |-> I(57), starts |-> Undefined]>> }

Summary(id, history, fixtures, past, cost, absent) ==
  [ id |-> I(id), history |-> history, fixtures |-> fixtures,
    history_past |-> past, value_form |-> Undefined,
    value_season |-> Undefined, points_per_game |-> Undefined,
    selected_by_percent |-> Undefined, now_cost |-> cost, absent |-> absent ]

Team(id, code, strength, position, attackHome, attackAway, defenceHome,
     defenceAway, played, points, win, loss) ==
  [ id |-> I(id), code |-> I(code), name |-> <<"T">>, short_name |-> <<"T">>,
    strength |-> I(strength), form |-> Undefined, position |-> I(position),
    played |-> I(played), points |-> I(points), win |-> I(win),
    draw |-> I(played - win - loss), loss |-> I(loss),
    strength_overall_home |-> I((attackHome + defenceHome) \div 2),
    strength_overall_away |-> I((attackAway + defenceAway) \div 2),
    strength_attack_home |-> I(attackHome), strength_attack_away |-> I(attackAway),
    strength_defence_home |-> I(defenceHome),
    strength_defence_away |-> I(defenceAway),
    unavailable |-> FALSE, pulse_id |-> I(id) ]

StatItem(value, element) == [value |-> I(value), element |-> I(element)]

Stat(identifier, h, a, absent) ==
  [identifier |-> identifier, h |-> h, a |-> a, absent |-> absent]

RawFixture(id, event, teamH, teamA, finished, stats, absent) ==
  [ id |-> I(id), event |-> I(event), team_h |-> I(teamH), team_a |-> I(teamA),
    team_h_difficulty |-> I(2), team_a_difficulty |-> I(4),
    kickoff_time |-> <<"t">>, finished |-> finished, started |-> finished,
    minutes |-> I(IF finished THEN 90 ELSE 0),
    team_h_score |-> IF finished THEN I(2) ELSE Undefined,
    team_a_score |-> IF finished THEN I(1) ELSE Undefined,
    stats |-> stats, pulse_id |-> I(id), absent |-> absent ]

PlayedStats ==
  << Stat("goals_scored", <<StatItem(1, 1), StatItem(1, 2)>>,
          <<StatItem(1, 3)>>, {}),
     Stat("yellow_cards", <<StatItem(1, 1)>>, <<>>, {}),
     Stat("red_cards", <<>>, <<StatItem(1, 3)>>, {"h"}) >>

Element(id) == [id |-> I(id)]

\* the states of the upstream API
Worlds == {1, 2, 3}

\* what getBootstrapStatic resolves to
Bootstrap(w) ==
  IF w = 1
  THEN [ teams |-> << Team(1, 3, 4, 1, 1200, 1100, 1100, 1000, 10, 24, 8, 2),
                      Team(2, 6, 3, 20, 900, 1000, 1000, 900, 10, 5, 1, 7) >>,
         elements |-> <<Element(1), Element(2)>>,
         events |-> <<Element(1), Element(2)>>,
         element_types |-> <<Element(1)>> ]
  ELSE IF w = 2
  THEN [ teams |-> << Team(1, 3, 5, 2, 1300, 1100, 1100, 1000, 11, 27, 9, 2) >>,
         elements |-> <<Element(1)>>,
         events |-> <<Element(1), Element(2), Element(3)>>,
         element_types |-> <<Element(1), Element(2)>> ]
  ELSE [ teams |-> << Team(1, 3, 4, 1, 1200, 1100, 1100, 1000, 0, 0, 0, 0) >>,
         elements |-> <<Element(2)>>,
         events |-> <<>>,
         element_types |-> <<Element(1)>> ]

\* what getFixtures resolves to
FixturesOf(w) ==
  IF w = 1
  THEN << RawFixture(1, 1, 1, 2, TRUE, PlayedStats, {}),
          RawFixture(2, 2, 2, 3, FALSE, <<>>, {"stats"}) >>
  ELSE IF w = 2
  THEN << RawFixture(1, 1, 1, 2, TRUE, PlayedStats, {}),
          RawFixture(3, 3, 1, 1, FALSE, <<>>, {}) >>
  ELSE <<>>

\* what getPlayerSummary(id) resolves to, with the id of the upsert filter
SummaryOf(w, id) ==
  IF w = 1 /\ id = I(1)
  THEN Summary(1, <<GamePool[1], GamePool[2]>>,
               <<Upcoming(I(2)), Upcoming(I(4))>>,
               <<[total_points |-> I(152), starts |-> I(38)]>>, Undefined, {})
  ELSE IF w = 2 /\ id = I(1)
  THEN Summary(1, <<GamePool[1], GamePool[2], GamePool[5]>>,
               <<Upcoming(I(4))>>,
               <<[total_points |-> I(152), starts |-> I(38)]>>, Undefined, {})
  ELSE [Summary(0, <<>>, <<>>, <<>>, Undefined, {}) EXCEPT !.id = id]

\* what getGameweekLive(gw) resolves to, with the id of the upsert filter
GameweekLiveOf(w, gw) == [id |-> I(gw), elements |-> <<>>]

(***************************************************************************)
(* Handlers as sequences of awaited operations.  A step is a record        *)
(* op, c, docs; op "call" is a read or an API request, which changes no    *)
(* collection.  f is the position of the operation that rejects, 0 if none *)
(* does.  The result is the store and the position that threw (0: none).   *)
(***************************************************************************)
\* a request to the API
Call == [op |-> "call", c |-> "", docs |-> <<>>]

\* collection.find({}).toArray()
Find == [op |-> "find", c |-> "", docs |-> <<>>]

Delete(c) == [op |-> "deleteMany", c |-> c, docs |-> <<>>]

InsertMany(c, docs) == [op |-> "insertMany", c |-> c, docs |-> docs]

InsertOne(c, doc) == [op |-> "insertOne", c |-> c, docs |-> <<doc>>]

Upsert(c, doc) == [op |-> "updateOne", c |-> c, docs |-> <<doc>>]

ApplyStep(d, step) ==
  IF step.op = "deleteMany" THEN deleteMany(d, step.c)
  ELSE IF step.op = "insertMany" THEN insertMany(d, step.c, step.docs)
  ELSE IF step.op = "insertOne" THEN insertOne(d, step.c, step.docs[1])
  ELSE IF step.op = "updateOne" THEN upsertById(d, step.c, step.docs[1])
  ELSE d

StepThrows(step, i, f) ==
  f = i \/ (step.op = "insertMany" /\ insertManyThrows(step.docs))

\* the awaited operations of a handler in sequence, up to the first that
\* rejects: threw is its position and op its kind; a rejected operation
\* leaves the store as it was
RunSteps(d, steps, f) ==
  LET r[i \in 0..Len(steps)] ==
        IF i = 0 THEN [db |-> d, threw |-> 0, op |-> ""]
        ELSE IF r[i - 1].threw # 0 THEN r[i - 1]
        ELSE IF StepThrows(steps[i], i, f)
             THEN [db |-> r[i - 1].db, threw |-> i, op |-> steps[i].op]
        ELSE [db |-> ApplyStep(r[i - 1].db, steps[i]), threw |-> 0, op |-> ""]
  IN  r[Len(steps)]

\* the steps of fetchAndStoreBootstrapStatic, had each deleteMany been issued
\* before the request
DeleteBeforeRequest(data) ==
  << Delete("bootstrap_static"), Delete("teams"), Delete("players"),
     Delete("gameweeks"), Delete("elements_types"),
     Call,
     InsertOne("bootstrap_static", data),
     InsertMany("teams", data.teams), InsertMany("players", data.elements),
     InsertMany("gameweeks", data.events),
     InsertMany("elements_types", data.element_types) >>

(***************************************************************************)
(* FPLDataCollector                                                        *)
(***************************************************************************)
BootstrapSteps(data) ==
  << Call,
     Delete("bootstrap_static"), InsertOne("bootstrap_static", data),
     Delete("teams"), InsertMany("teams", data.teams),
     Delete("players"), InsertMany("players", data.elements),
     Delete("gameweeks"), InsertMany("gameweeks", data.events),
     Delete("elements_types"), InsertMany("elements_types", data.element_types) >>

\* a catch block that logs the error and throws it again
Rethrown(result) ==
  [db |-> result.db, threw |-> result.threw, op |-> result.op,
   logged |-> result.threw # 0, error |-> result.op]

\* try { ... } catch (error) { logger.error(...) }: the error is logged and
\* not rethrown; error is the kind of operation that rejected
Caught(result) ==
  [db |-> result.db, threw |-> 0, op |-> "", logged |-> result.threw # 0,
   error |-> result.op]

fetchAndStoreBootstrapStatic(d, w, f) ==
  Caught(RunSteps(d, BootstrapSteps(Bootstrap(w)), f))

fetchAndStoreFixtures(d, w, f) ==
  Caught(RunSteps(d, <<Call, Delete("fixtures"),
                       InsertMany("fixtures", FixturesOf(w))>>, f))

fetchAndStorePlayerSummary(d, w, playerId, f) ==
  Caught(RunSteps(d, <<Call, Upsert("player_summaries",
                                     SummaryOf(w, playerId))>>, f))

fetchAndStoreGameweekLive(d, w, gameweek, f) ==
  Caught(RunSteps(d, <<Call, Upsert("gameweek_live",
                                     GameweekLiveOf(w, gameweek))>>, f))

\* const totalGameweeks = 38
totalGameweeks == 38

(***************************************************************************)
(* DataProcessor, FeatureEngineer, DatasetCreator, ModelTrainer            *)
(***************************************************************************)
processPlayerData(d, f) ==
  RunSteps(d, <<Find, Delete("processed_players"),
                InsertMany("processed_players",
                           Map(processPlayer, d["player_summaries"]))>>, f)

processFixtureData(d, f) ==
  RunSteps(d, <<Find, Delete("processed_fixtures"),
                InsertMany("processed_fixtures",
                           Map(processFixture, d["fixtures"]))>>, f)

processTeamData(d, f) ==
  RunSteps(d, <<Find, Delete("processed_teams"),
                InsertMany("processed_teams", Map(processTeam, d["teams"]))>>, f)

createPlayerFeatures(d, f) ==
  RunSteps(d, <<Find, Delete("player_features"),
                InsertMany("player_features",
                           Map(playerFeature, d["processed_players"]))>>, f)

fixtureFeatures(d) ==
  LET Feature(fixture) == fixtureFeature(fixture, d["processed_teams"])
  IN  Map(Feature, d["processed_fixtures"])

createFixtureFeatures(d, f) ==
  RunSteps(d, <<Find, Find, Delete("fixture_features"),
                InsertMany("fixture_features", fixtureFeatures(d))>>, f)

createTrainingDataset(d, draws, f) ==
  RunSteps(d, <<Find, Find, Delete("training_dataset"),
                InsertMany("training_dataset",
                   combinePlayerAndFixtureData(d["player_features"],
                                               d["fixture_features"], draws))>>, f)

\* processData: the three stages in sequence; f counts awaited operations
\* across them, and the first rejection ends the sequence
processData(d, f) ==
  LET r1 == processPlayerData(d, f)
      r2 == processFixtureData(r1.db, f - 3)
      r3 == processTeamData(r2.db, f - 6)
  IN  IF r1.threw # 0 THEN [db |-> r1.db, threw |-> 1, op |-> r1.op]
      ELSE IF r2.threw # 0 THEN [db |-> r2.db, threw |-> 2, op |-> r2.op]
      ELSE [db |-> r3.db, threw |-> IF r3.threw # 0 THEN 3 ELSE 0,
            op |-> r3.op]

\* engineerFeatures: player features, then fixture features
engineerFeatures(d, f) ==
  LET r1 == createPlayerFeatures(d, f)
      r2 == createFixtureFeatures(r1.db, f - 3)
  IN  IF r1.threw # 0 THEN [db |-> r1.db, threw |-> 1, op |-> r1.op]
      ELSE [db |-> r2.db, threw |-> IF r2.threw # 0 THEN 2 ELSE 0,
            op |-> r2.op]

\* tf.tensor2d(inputs) without a shape rejects an empty array, and model.fit
\* rejects input vectors whose length is not the declared input size
fitThrows(prepared) ==
  \/ Len(prepared.inputs) = 0
  \/ \E k \in 1..Len(prepared.inputs) : Len(prepared.inputs[k]) # inputShape

NoModel == [saved |-> FALSE, inputs |-> <<>>, labels |-> <<>>]

\* trainModel: find, prepareData, createModel, fitModel, saveModel
trainModel(d, m, f) ==
  LET prepared == prepareData(d["training_dataset"])
  IN  IF f = 1 THEN [model |-> m, threw |-> 1, op |-> "find"]
      ELSE IF fitThrows(prepared) THEN [model |-> m, threw |-> 2, op |-> "fit"]
      ELSE IF f = 2 THEN [model |-> m, threw |-> 3, op |-> "save"]
      ELSE [model |-> [saved |-> TRUE, inputs |-> prepared.inputs,
                       labels |-> prepared.labels], threw |-> 0, op |-> ""]

\* Math.random(): a generator whose seed the program does not control; the
\* k-th value it returns under seed s
RandomSeeds == {0, 1}

RandomDraw(s, k) == Rat((s + k) % 2, 2)

(***************************************************************************)
(* State                                                                   *)
(***************************************************************************)
VARIABLES
  db,            \* the document store
  pc,            \* the position of main(), or of the caller
  connected,     \* the MongoClient main() opened is still open
  world,         \* the state of the upstream API during the current run
  faults,        \* the number of rejected operations injected so far
  runs,          \* the number of runs of main() started so far
  local,         \* fetchAllData's locals: the players still to fetch
  trainingData,  \* the array the last combinePlayerAndFixtureData returned
  model,         \* the model saved on disk
  trace,         \* the stage events of the current run
  predicted,     \* the input tensor predictPlayerPoints last built
  subject,       \* the entity a feature function is applied to
  derived,       \* what the feature functions made of subject
  budget         \* the runs, rejections and upstream states a behaviour holds

vars == << db, pc, connected, world, faults, runs, local, trainingData, model,
           trace, predicted, subject, derived, budget >>

\* the number of runs of main() a behaviour holds
MaxRuns == 2

\* the number of operations the store or the API rejects in a behaviour
MaxFaults == 1

\* the budget of the behaviours of main() from an empty store
Budget == [runs |-> MaxRuns, faults |-> MaxFaults, worlds |-> Worlds]

NoLocal == [players |-> <<>>]

NoPrediction == [made |-> FALSE, playerId |-> Zero, fixtureId |-> Zero,
                 input |-> <<>>]

Init ==
  /\ db = EmptyDb
  /\ pc = "idle"
  /\ connected = FALSE
  /\ world = 1
  /\ faults = 0
  /\ runs = 0
  /\ local = NoLocal
  /\ trainingData = <<>>
  /\ model = NoModel
  /\ trace = <<>>
  /\ predicted = NoPrediction
  /\ subject = <<>>
  /\ derived = <<>>
  /\ budget = Budget

\* f = 0 is a run of the handler in which nothing is rejected
MayFail(f) == f = 0 \/ faults < budget.faults

Charge(f) == faults' = IF f = 0 THEN faults ELSE faults + 1

Started(stage) == <<"start", stage>>

Ended(stage) == <<"end", stage>>

\* the stage rejected, because its operation of kind op did
Failed(stage, op) == <<"fail", stage, op>>

\* the error a catch block of a fetchAndStore operation received: the
\* rejection of an operation of kind op
Thrown(op) == <<"thrown", op>>

\* logger.error in the catch block of a fetchAndStore operation
Logged(operation) == <<"error", operation>>

\* FPLApiService.<method>(id) is called; id is 0 for a method without one
Requested(method, id) == <<"request", method, "id", id>>

\* the events of one awaited fetchAndStore call inside fetchAllData
FetchEvents(operation, result) ==
  (IF result.logged THEN <<Thrown(result.error), Logged(operation)>> ELSE <<>>)
    \o (IF result.threw # 0 THEN <<Failed("fetchAllData", result.op)>>
        ELSE <<>>)

\* the events of a stage that ran as one awaited call
StageEvents(stage, result) ==
  << Started(stage),
     IF result.threw # 0 THEN Failed(stage, result.op) ELSE Ended(stage) >>

(***************************************************************************)
(* main()                                                                  *)
(***************************************************************************)
\* the collections checkDataExists counts, in the order of its loop
RequiredCollections ==
  << "bootstrap_static", "fixtures", "player_summaries", "processed_players",
     "player_features", "fixture_features" >>

\* a check that is satisfied by any one collection holding a document
anyDataExists(d) ==
  \E i \in 1..Len(RequiredCollections) :
     countDocuments(d, RequiredCollections[i]) # 0

checkDataExists(d) ==
  \A i \in 1..Len(RequiredCollections) :
     countDocuments(d, RequiredCollections[i]) # 0

\* the number of countDocuments calls checkDataExists makes
CountCalls(d) ==
  LET empty == {i \in 1..Len(RequiredCollections) :
                  countDocuments(d, RequiredCollections[i]) = 0}
  IN  IF empty = {} THEN Len(RequiredCollections)
      ELSE CHOOSE i \in empty : \A j \in empty : i <= j

\* a main() that goes on to the next stage whatever the stage did
ContinueAnyway(threw, next) == next

\* where main() goes after a stage: the catch block ends the run
AfterStage(threw, next) == IF threw THEN "failed" ELSE next

\* main() starts: connectToDatabase
MainStart ==
  /\ pc \in {"idle", "done", "failed"}
  /\ runs < budget.runs
  /\ runs' = runs + 1
  /\ \E f \in 0..1 :
       /\ MayFail(f)
       /\ Charge(f)
       /\ connected' = (connected \/ f = 0)
       /\ pc' = AfterStage(f # 0, "checkDataExists")
  /\ trace' = <<>>
  /\ local' = NoLocal
  /\ UNCHANGED << budget, db, world, trainingData, model, predicted, subject, derived >>

\* logger.info of the branch main() takes on dataExists
Checked(dataExists) ==
  <<"check", IF dataExists THEN "data exists" ELSE "data does not exist">>

\* a main() that collects, processes and engineers whatever the check said
CollectAnyway(dataExists) == "fetchAndStoreBootstrapStatic"

\* if (!dataExists) { fetchAllData; processData; engineerFeatures }
AfterCheck(dataExists) ==
  IF dataExists THEN "createTrainingDataset" ELSE "fetchAndStoreBootstrapStatic"

\* const dataExists = await checkDataExists(db), and the log line of the
\* branch taken; a rejected countDocuments ends the run before it
MainCheckDataExists ==
  /\ pc = "checkDataExists"
  /\ \E f \in 0..CountCalls(db) :
       /\ MayFail(f)
       /\ Charge(f)
       /\ pc' = AfterStage(f # 0, AfterCheck(checkDataExists(db)))
       /\ trace' = IF f # 0 THEN trace
                   ELSE Append(trace, Checked(checkDataExists(db)))
  /\ UNCHANGED << budget, db, connected, world, runs, local, trainingData, model,
                  predicted, subject, derived >>

\* fetchAllData starts; the API is in some state w for the run
MainFetchBootstrapStatic ==
  /\ pc = "fetchAndStoreBootstrapStatic"
  /\ \E f \in 0..11, w \in budget.worlds :
       /\ MayFail(f)
       /\ Charge(f)
       /\ world' = w
       /\ LET r == fetchAndStoreBootstrapStatic(db, w, f)
          IN  /\ db' = r.db
              /\ pc' = AfterStage(r.threw # 0, "fetchAndStoreFixtures")
              /\ trace' = trace
                            \o << Started("fetchAllData"),
                                  Requested("getBootstrapStatic", 0) >>
                            \o FetchEvents("fetchAndStoreBootstrapStatic", r)
  /\ UNCHANGED << budget, connected, runs, local, trainingData, model,
                  predicted, subject, derived >>

MainFetchFixtures ==
  /\ pc = "fetchAndStoreFixtures"
  /\ \E f \in 0..3 :
       /\ MayFail(f)
       /\ Charge(f)
       /\ LET r == fetchAndStoreFixtures(db, world, f)
          IN  /\ db' = r.db
              /\ pc' = AfterStage(r.threw # 0, "findPlayers")
              /\ trace' = Append(trace, Requested("getFixtures", 0))
                            \o FetchEvents("fetchAndStoreFixtures", r)
  /\ UNCHANGED << budget, connected, world, runs, local, trainingData, model,
                  predicted, subject, derived >>

PlayerId(player) == player.id

\* const players = await db.collection("players").find({}).toArray()
MainFindPlayers ==
  /\ pc = "findPlayers"
  /\ \E f \in 0..1 :
       /\ MayFail(f)
       /\ Charge(f)
       /\ pc' = AfterStage(f # 0, "fetchAndStorePlayerSummary")
       /\ trace' = IF f # 0 THEN Append(trace, Failed("fetchAllData", "find")) ELSE trace
       /\ local' = IF f # 0 THEN local
                   ELSE [players |-> Map(PlayerId, db["players"])]
  /\ UNCHANGED << budget, db, connected, world, runs, trainingData, model, predicted,
                  subject, derived >>

\* for (const player of players) await fetchAndStorePlayerSummary(player.id)
MainFetchPlayerSummary ==
  /\ pc = "fetchAndStorePlayerSummary"
  /\ Len(local.players) > 0
  /\ \E f \in 0..2 :
       /\ MayFail(f)
       /\ Charge(f)
       /\ LET r == fetchAndStorePlayerSummary(db, world, Head(local.players), f)
          IN  /\ db' = r.db
              /\ pc' = AfterStage(r.threw # 0, pc)
              /\ trace' = Append(trace, Requested("getPlayerSummary",
                                                   Head(local.players).n))
                            \o FetchEvents("fetchAndStorePlayerSummary", r)
  /\ local' = [local EXCEPT !.players = Tail(@)]
  /\ UNCHANGED << budget, connected, world, runs, trainingData, model,
                  predicted, subject, derived >>

\* the subsets of S with at most n elements
RECURSIVE SmallSubsets(_, _)
SmallSubsets(S, n) ==
  IF n = 0 THEN {{}}
  ELSE LET smaller == SmallSubsets(S, n - 1)
       IN  smaller \cup {T \cup {x} : T \in smaller, x \in S}

\* for (let gw = first; gw <= last; gw++) await fetchAndStoreGameweekLive(gw)
\* with a rejected operation in the iterations of gameweeks `failing`; the
\* iterations of the second half start when those of the first have settled.
\* r.events are the events of the calls, and a call that rejects ends the loop
RECURSIVE fetchGameweeks(_, _, _, _, _)
fetchGameweeks(d, w, failing, first, last) ==
  IF first = last
  THEN LET r == fetchAndStoreGameweekLive(d, w, first,
                                          IF first \in failing THEN 1 ELSE 0)
       IN  [db |-> r.db, threw |-> r.threw,
            events |-> <<Requested("getGameweekLive", first)>>
                         \o FetchEvents("fetchAndStoreGameweekLive", r)]
  ELSE LET middle == (first + last) \div 2
           before == fetchGameweeks(d, w, failing, first, middle)
       IN  IF before.threw # 0 THEN before
           ELSE LET after == fetchGameweeks(before.db, w, failing,
                                            middle + 1, last)
                IN  [after EXCEPT !.events = before.events \o @]

fetchAllGameweeks(d, w, failing) ==
  fetchGameweeks(d, w, failing, 1, totalGameweeks)

\* the iterations of the gameweek loop in which an operation may be rejected:
\* the first, the second and the last
FailingGameweeks == {1, 2, totalGameweeks}

\* the gameweek loop of fetchAllData, after which fetchAllData returns
MainFetchGameweekLive ==
  /\ pc = "fetchAndStorePlayerSummary"
  /\ Len(local.players) = 0
  /\ \E failing \in SmallSubsets(FailingGameweeks, budget.faults - faults) :
       /\ faults' = faults + Cardinality(failing)
       /\ LET r == fetchAllGameweeks(db, world, failing)
          IN  /\ db' = r.db
              /\ pc' = AfterStage(r.threw # 0, "processPlayerData")
              /\ trace' = trace \o r.events
                            \o (IF r.threw # 0 THEN <<>>
                                ELSE <<Ended("fetchAllData")>>)
  /\ UNCHANGED << budget, connected, world, runs, local, trainingData, model,
                  predicted, subject, derived >>

\* one awaited stage of main(): the stage's handler, then on to `next`
RunStage(stage, result, next) ==
  /\ db' = result.db
  /\ pc' = AfterStage(result.threw # 0, next)
  /\ trace' = trace \o StageEvents(stage, result)

MainProcessPlayerData ==
  /\ pc = "processPlayerData"
  /\ \E f \in 0..3 :
       /\ MayFail(f)
       /\ Charge(f)
       /\ RunStage("processPlayerData", processPlayerData(db, f),
                   "processFixtureData")
  /\ UNCHANGED << budget, connected, world, runs, local, trainingData, model,
                  predicted, subject, derived >>

MainProcessFixtureData ==
  /\ pc = "processFixtureData"
  /\ \E f \in 0..3 :
       /\ MayFail(f)
       /\ Charge(f)
       /\ RunStage("processFixtureData", processFixtureData(db, f),
                   "processTeamData")
  /\ UNCHANGED << budget, connected, world, runs, local, trainingData, model,
                  predicted, subject, derived >>

MainProcessTeamData ==
  /\ pc = "processTeamData"
  /\ \E f \in 0..3 :
       /\ MayFail(f)
       /\ Charge(f)
       /\ RunStage("processTeamData", processTeamData(db, f),
                   "createPlayerFeatures")
  /\ UNCHANGED << budget, connected, world, runs, local, trainingData, model,
                  predicted, subject, derived >>

MainCreatePlayerFeatures ==
  /\ pc = "createPlayerFeatures"
  /\ \E f \in 0..3 :
       /\ MayFail(f)
       /\ Charge(f)
       /\ RunStage("createPlayerFeatures", createPlayerFeatures(db, f),
                   "createFixtureFeatures")
  /\ UNCHANGED << budget, connected, world, runs, local, trainingData, model,
                  predicted, subject, derived >>

MainCreateFixtureFeatures ==
  /\ pc = "createFixtureFeatures"
  /\ \E f \in 0..4 :
       /\ MayFail(f)
       /\ Charge(f)
       /\ RunStage("createFixtureFeatures", createFixtureFeatures(db, f),
                   "createTrainingDataset")
  /\ UNCHANGED << budget, connected, world, runs, local, trainingData, model,
                  predicted, subject, derived >>

\* the sequences of values Math.random() may return while n rows are built
DrawsFor(n) == {[k \in 1..n |-> RandomDraw(s, k)] : s \in RandomSeeds}

RowCount(d) == Len(d["player_features"]) * Len(d["fixture_features"])

MainCreateTrainingDataset ==
  /\ pc = "createTrainingDataset"
  /\ \E f \in 0..4, draws \in DrawsFor(RowCount(db)) :
       /\ MayFail(f)
       /\ Charge(f)
       /\ RunStage("createTrainingDataset", createTrainingDataset(db, draws, f),
                   "trainModel")
       /\ trainingData' =
            IF f \in 1..2 THEN trainingData
            ELSE combinePlayerAndFixtureData(db["player_features"],
                                             db["fixture_features"], draws)
  /\ UNCHANGED << budget, connected, world, runs, local, model, predicted, subject,
                  derived >>

MainTrainModel ==
  /\ pc = "trainModel"
  /\ \E f \in 0..2 :
       /\ MayFail(f)
       /\ Charge(f)
       /\ LET r == trainModel(db, model, f)
          IN  /\ model' = r.model
              /\ pc' = AfterStage(r.threw # 0, "close")
              /\ trace' = trace \o StageEvents("trainModel", r)
  /\ UNCHANGED << budget, db, connected, world, runs, local, trainingData, predicted,
                  subject, derived >>

\* await mongoClient.close()
MainClose ==
  /\ pc = "close"
  /\ \E f \in 0..1 :
       /\ MayFail(f)
       /\ Charge(f)
       /\ connected' = (f # 0)
       /\ pc' = AfterStage(f # 0, "done")
  /\ UNCHANGED << budget, db, world, runs, local, trainingData, model, trace,
                  predicted, subject, derived >>

Next ==
  \/ MainStart
  \/ MainCheckDataExists
  \/ MainFetchBootstrapStatic
  \/ MainFetchFixtures
  \/ MainFindPlayers
  \/ MainFetchPlayerSummary
  \/ MainFetchGameweekLive
  \/ MainProcessPlayerData
  \/ MainProcessFixtureData
  \/ MainProcessTeamData
  \/ MainCreatePlayerFeatures
  \/ MainCreateFixtureFeatures
  \/ MainCreateTrainingDataset
  \/ MainTrainModel
  \/ MainClose

Spec == Init /\ [][Next]_vars

\* the runs of main() a behaviour of repeated failures holds
MaxReruns == 4

\* the operations the store or the API rejects in such a behaviour
MaxRerunFaults == 2

\* the states of the upstream API in such a behaviour: the one with no
\* event and no fixture, and one with both
RerunWorlds == {1, 3}

\* main() run again and again on the store the runs before left behind,
\* from an empty store, long enough for a failed run to follow a complete one
InitRerun ==
  /\ db = EmptyDb
  /\ pc = "idle"
  /\ connected = FALSE
  /\ world = 1
  /\ faults = 0
  /\ runs = 0
  /\ local = NoLocal
  /\ trainingData = <<>>
  /\ model = NoModel
  /\ trace = <<>>
  /\ predicted = NoPrediction
  /\ subject = <<>>
  /\ derived = <<>>
  /\ budget = [runs |-> MaxReruns, faults |-> MaxRerunFaults,
               worlds |-> RerunWorlds]

SpecRerun == InitRerun /\ [][Next]_vars

(***************************************************************************)
(* The operations of DataProcessor, FeatureEngineer, DatasetCreator,       *)
(* ModelTrainer and Predictor called directly, in any order, on the raw    *)
(* collections a complete fetchAllData left in the store                   *)
(***************************************************************************)
\* fetchAllData in world w with no operation rejected
fetchAllData(d, w) ==
  LET StoreSummary(acc, player, index) ==
        fetchAndStorePlayerSummary(acc, w, player.id, 0).db
      d1 == fetchAndStoreBootstrapStatic(d, w, 0).db
      d2 == fetchAndStoreFixtures(d1, w, 0).db
      d3 == Reduce(StoreSummary, d2, d2["players"])
  IN  fetchAllGameweeks(d3, w, {}).db

\* collection.findOne({ id }): the first document with that id, or null
NoDocument == [id |-> Undefined, isNull |-> TRUE]

findOne(d, c, id) ==
  LET hits == {i \in 1..Len(d[c]) : d[c][i].id = id}
  IN  IF hits = {} THEN NoDocument
      ELSE d[c][CHOOSE i \in hits : \A j \in hits : i <= j]

IsNull(doc) == "isNull" \in DOMAIN doc

\* predictPlayerPoints(playerId, fixtureId) with the model m loaded from disk
predictPlayerPoints(d, m, playerId, fixtureId) ==
  LET ofPlayer  == findOne(d, "player_features", playerId)
      ofFixture == findOne(d, "fixture_features", fixtureId)
  IN  IF ~m.saved \/ IsNull(ofPlayer) \/ IsNull(ofFixture)
      THEN [threw |-> 1, op |-> "throw", input |-> <<>>]
      ELSE [threw |-> 0, op |-> "",
            input |-> predictionInput(ofPlayer, ofFixture)]

\* the last call the caller made, and how it ended
\* rejected: the store or the disk rejected an operation of the call; at: the
\* kind of the operation at which the call threw
LastCall(op, result, f) ==
  [op |-> op, threw |-> result.threw # 0, at |-> result.op,
   rejected |-> f # 0]

NoCall == [op |-> "", threw |-> FALSE, at |-> "", rejected |-> FALSE]

\* the operations that rebuild the derived collections, in main()'s order
Pipeline == <<"processData", "engineerFeatures", "createTrainingDataset">>

\* the operations that completed in a row in the order of Pipeline, over at
\* most two rounds, after the call of op
InARow(done, op, threw) ==
  IF threw THEN <<>>
  ELSE IF op = Pipeline[(Len(done) % 3) + 1]
  THEN Append(IF Len(done) = 6 THEN SliceLast(done, 3) ELSE done, op)
  ELSE IF op = Pipeline[1] THEN <<op>>
  ELSE <<>>

\* the derived collections as a round of Pipeline left them: one entry for
\* each complete round of InARow
Rounds(done, kept, d) ==
  LET now == [c \in DerivedCollections |-> d[c]]
  IN  IF Len(done) < 3 THEN <<>>
      ELSE IF Len(done) = 3 THEN <<now>>
      ELSE IF Len(done) < 6 THEN <<kept[Len(kept)]>>
      ELSE <<kept[Len(kept)], now>>

\* the ids a caller asks a prediction for: present in some worlds, and absent
PlayerIds == {I(1), I(9)}

FixtureIds == {I(1), I(9)}

InitOps ==
  /\ \E w \in Worlds : /\ world = w
                       /\ db = fetchAllData(EmptyDb, w)
  /\ pc = "caller"
  /\ connected = TRUE
  /\ faults = 0
  /\ runs = 0
  /\ local = NoCall
  /\ trainingData = <<>>
  /\ model = NoModel
  /\ trace = <<>>
  /\ predicted = NoPrediction
  /\ subject = <<>>
  /\ derived = <<>>
  /\ budget = Budget

\* what every call of the caller leaves alone
OpsFrame == UNCHANGED << budget, pc, connected, world, runs, subject >>

\* a call that rebuilds derived collections
OpsRebuild(op, result, f) ==
  /\ db' = result.db
  /\ local' = LastCall(op, result, f)
  /\ trace' = InARow(trace, op, result.threw # 0)
  /\ derived' = Rounds(trace', derived, db')
  /\ predicted' = NoPrediction
  /\ OpsFrame

OpsProcessData ==
  /\ pc = "caller"
  /\ \E f \in 0..9 :
       /\ MayFail(f)
       /\ Charge(f)
       /\ OpsRebuild("processData", processData(db, f), f)
  /\ trainingData' = <<>>
  /\ UNCHANGED model

OpsEngineerFeatures ==
  /\ pc = "caller"
  /\ \E f \in 0..7 :
       /\ MayFail(f)
       /\ Charge(f)
       /\ OpsRebuild("engineerFeatures", engineerFeatures(db, f), f)
  /\ trainingData' = <<>>
  /\ UNCHANGED model

\* trainingData is what combinePlayerAndFixtureData returned in the call
OpsCreateTrainingDataset ==
  /\ pc = "caller"
  /\ \E f \in 0..4, draws \in DrawsFor(RowCount(db)) :
       /\ MayFail(f)
       /\ Charge(f)
       /\ OpsRebuild("createTrainingDataset",
                     createTrainingDataset(db, draws, f), f)
       /\ trainingData' =
            IF f \in 1..2 THEN <<>>
            ELSE combinePlayerAndFixtureData(db["player_features"],
                                             db["fixture_features"], draws)
  /\ UNCHANGED model

OpsTrainModel ==
  /\ pc = "caller"
  /\ \E f \in 0..2 :
       /\ MayFail(f)
       /\ Charge(f)
       /\ LET r == trainModel(db, model, f)
          IN  /\ model' = r.model
              /\ local' = LastCall("trainModel", r, f)
  /\ trainingData' = <<>>
  /\ predicted' = NoPrediction
  /\ OpsFrame
  /\ UNCHANGED << db, trace, derived >>

\* loadModel, then predictPlayerPoints(playerId, fixtureId)
OpsPredictPlayerPoints ==
  /\ pc = "caller"
  /\ \E playerId \in PlayerIds, fixtureId \in FixtureIds :
       LET r == predictPlayerPoints(db, model, playerId, fixtureId)
       IN  /\ local' = LastCall("predictPlayerPoints", r, 0)
           /\ predicted' = IF r.threw # 0 THEN NoPrediction
                           ELSE [made |-> TRUE, playerId |-> playerId,
                                 fixtureId |-> fixtureId, input |-> r.input]
  /\ trainingData' = <<>>
  /\ OpsFrame
  /\ UNCHANGED << db, faults, model, trace, derived >>

NextOps ==
  \/ OpsProcessData
  \/ OpsEngineerFeatures
  \/ OpsCreateTrainingDataset
  \/ OpsTrainModel
  \/ OpsPredictPlayerPoints

SpecOps == InitOps /\ [][NextOps]_vars

(***************************************************************************)
(* The per-player functions applied to one player summary: the map         *)
(* callback of processPlayerData, then the map callback of                 *)
(* createPlayerFeatures on the document it made                            *)
(***************************************************************************)
\* the longest history drawn game by game
MaxHistory == 2

RECURSIVE GameSeqs(_)
GameSeqs(n) ==
  IF n = 0 THEN {<<>>}
  ELSE LET shorter == GameSeqs(n - 1)
       IN  shorter \cup {Append(h, GamePool[i]) :
                           h \in shorter, i \in 1..Len(GamePool)}

\* seven games of the current season, oldest first
SeasonPool ==
  << Game(39, 6, 90, 1, 0, 2, 55, TRUE, <<"0", ".", "5">>),
     Game(40, 2, 0, 0, 0, 0, 56, FALSE, <<"0">>),
     Game(41, 9, 90, 1, 1, 3, 54, TRUE, <<"1", ".", "2", "5">>),
     Game(42, 1, 45, 0, 0, 0, 56, FALSE, <<"0", ".", "1">>),
     Game(43, 12, 90, 2, 1, 3, 57, TRUE, <<"1">>),
     Game(44, 5, 90, 0, 1, 1, 57, FALSE, <<"0", ".", "1">>),
     Game(45, 3, 60, 0, 0, 0, 58, TRUE, <<"0">>) >>

\* five games of 2, 4, 6, 8 and 10 points
RisingSeason ==
  << Game(39, 2, 90, 0, 0, 0, 55, TRUE, <<"0">>),
     Game(40, 4, 90, 0, 1, 0, 55, FALSE, <<"0">>),
     Game(41, 6, 90, 1, 0, 1, 55, TRUE, <<"0", ".", "5">>),
     Game(42, 8, 90, 1, 0, 2, 56, FALSE, <<"0", ".", "5">>),
     Game(43, 10, 90, 1, 1, 3, 56, TRUE, <<"1">>) >>

\* the drawn histories, the seasons that are prefixes of the pool, the
\* current season after each of its games, and the rising season
Histories ==
  GameSeqs(MaxHistory) \cup {SliceFirst(GamePool, n) : n \in 0..Len(GamePool)}
    \cup {SliceFirst(SeasonPool, n) : n \in 0..Len(SeasonPool)}
    \cup {RisingSeason}

\* the properties a summary document may lack
AbsentSets == { {}, {"history"}, {"history", "fixtures", "history_past"} }

Summaries ==
  { Summary(7, history, fixtures, past, cost, absent) :
      history \in Histories, fixtures \in UpcomingPool, past \in PastPool,
      cost \in {I(55), Undefined}, absent \in AbsentSets }

InitFeat ==
  /\ db = EmptyDb
  /\ pc = "summary"
  /\ connected = FALSE
  /\ world = 1
  /\ faults = 0
  /\ runs = 0
  /\ local = NoLocal
  /\ trainingData = <<>>
  /\ model = NoModel
  /\ trace = <<>>
  /\ predicted = NoPrediction
  /\ subject \in Summaries
  /\ derived = <<>>
  /\ budget = Budget

\* players.map(...) of processPlayerData on the summary
FeatProcessPlayer ==
  /\ pc = "summary"
  /\ derived' = <<processPlayer(subject)>>
  /\ pc' = "processed"
  /\ UNCHANGED << budget, db, connected, world, faults, runs, local, trainingData,
                  model, trace, predicted, subject >>

\* players.map(...) of createPlayerFeatures on the processed player
FeatCreatePlayerFeatures ==
  /\ pc = "processed"
  /\ derived' = Append(derived, playerFeature(derived[1]))
  /\ pc' = "engineered"
  /\ UNCHANGED << budget, db, connected, world, faults, runs, local, trainingData,
                  model, trace, predicted, subject >>

NextFeat ==
  \/ FeatProcessPlayer
  \/ FeatCreatePlayerFeatures

SpecFeat == InitFeat /\ [][NextFeat]_vars

\* the processed player and its features, once both are made
Engineered == pc = "engineered"

ProcessedPlayer == derived[1]

PlayerFeatures == derived[2]

(***************************************************************************)
(* SpecFix: the map callbacks of processFixtureData and                    *)
(* createFixtureFeatures applied to one drawn raw fixture                  *)
(***************************************************************************)
\* the longest per-side list of a drawn stat entry
MaxItems == 2

\* the per-side lists of a stat entry: items of value 1 or 2
RECURSIVE ItemLists(_)
ItemLists(n) ==
  IF n = 0 THEN {<<>>}
  ELSE LET shorter == ItemLists(n - 1)
       IN  shorter \cup {Append(l, StatItem(v, Len(l) + 1)) :
                           l \in shorter, v \in {1, 2}}

\* the sides a stat entry may lack
AbsentSides == { {}, {"h"}, {"a"} }

\* the goals_scored entry of a fixture, if it has one
GoalEntries ==
  {<<>>} \cup
  { <<Stat("goals_scored", h, a, absent)>> :
      h \in ItemLists(MaxItems), a \in ItemLists(MaxItems),
      absent \in AbsentSides }

\* the card entries of a fixture, if it has them
CardEntries ==
  { <<>>,
    <<Stat("yellow_cards", <<StatItem(1, 1)>>, <<>>, {})>>,
    <<Stat("yellow_cards", <<StatItem(1, 1)>>, <<StatItem(1, 3)>>, {}),
      Stat("red_cards", <<>>, <<StatItem(1, 3)>>, {"h"})>> }

\* the ids of a league table of 21 teams: team 10 + r has rank r and code r
LeagueIds == 11..31

League == [r \in 1..21 |-> Team(10 + r, r, 3, r, 1100, 1000, 1000, 900, 10, 12, 3, 4)]

\* fixtures between team 1 and team 2 or the unknown team 3, and the
\* unplayed fixtures between teams of the league table or the unknown team 3
RawFixtures ==
  { RawFixture(5, 4, 1, teamA, finished, goals \o cards, {}) :
      teamA \in {2, 3}, finished \in BOOLEAN,
      goals \in GoalEntries, cards \in CardEntries }
  \cup { RawFixture(5, 4, 1, 2, finished, <<>>, {"stats"}) :
           finished \in BOOLEAN }
  \cup { RawFixture(6, 5, teamH, teamA, FALSE, <<>>, {}) :
           teamH \in LeagueIds \cup {3}, teamA \in LeagueIds \cup {3} }

\* processed_teams as createFixtureFeatures finds it
ProcessedTeams == Map(processTeam, Bootstrap(1).teams \o League)

InitFix ==
  /\ db = EmptyDb
  /\ pc = "fixture"
  /\ connected = FALSE
  /\ world = 1
  /\ faults = 0
  /\ runs = 0
  /\ local = NoLocal
  /\ trainingData = <<>>
  /\ model = NoModel
  /\ trace = <<>>
  /\ predicted = NoPrediction
  /\ subject \in RawFixtures
  /\ derived = <<>>
  /\ budget = Budget

\* fixtures.map(...) of processFixtureData on the raw fixture
FixProcessFixture ==
  /\ pc = "fixture"
  /\ derived' = <<processFixture(subject)>>
  /\ pc' = "processedFixture"
  /\ UNCHANGED << budget, db, connected, world, faults, runs, local, trainingData,
                  model, trace, predicted, subject >>

\* fixtures.map(...) of createFixtureFeatures on the processed fixture
FixCreateFixtureFeatures ==
  /\ pc = "processedFixture"
  /\ derived' = Append(derived, fixtureFeature(derived[1], ProcessedTeams))
  /\ pc' = "engineeredFixture"
  /\ UNCHANGED << budget, db, connected, world, faults, runs, local, trainingData,
                  model, trace, predicted, subject >>

NextFix ==
  \/ FixProcessFixture
  \/ FixCreateFixtureFeatures

SpecFix == InitFix /\ [][NextFix]_vars

\* the processed fixture and its features, once made
FixtureProcessed == pc \in {"processedFixture", "engineeredFixture"}

FixtureEngineered == pc = "engineeredFixture"

ProcessedFixture == derived[1]

FixtureFeatures == derived[2]

(***************************************************************************)
(* Claims                                                                  *)
(***************************************************************************)
\* a training row without its label
WithoutLabel(row) == [name \in DOMAIN row \ {"actualPoints"} |-> row[name]]

\* the row of a pair, label aside
PairRow(player, fixture) == WithoutLabel(trainingRow(player, fixture, Zero))

\* the last call was createTrainingDataset, and both of its finds resolved
Combined == local.op = "createTrainingDataset" /\ local.at # "find"

\* C1: for any player-feature collection P and fixture-feature collection F,
\* empty ones included, combinePlayerAndFixtureData returns exactly one row
\* for each (player, fixture) pair and no other row, so |P| x |F| rows.
C1_OneRowPerPair ==
  Combined =>
    LET P == db["player_features"]
        F == db["fixture_features"]
    IN  /\ Len(trainingData) = Len(P) * Len(F)
        /\ \A i \in 1..Len(P), j \in 1..Len(F) :
             Cardinality({k \in 1..Len(trainingData) :
                WithoutLabel(trainingData[k]) = PairRow(P[i], F[j])}) = 1
        /\ \A k \in 1..Len(trainingData) :
             \E i \in 1..Len(P), j \in 1..Len(F) :
                WithoutLabel(trainingData[k]) = PairRow(P[i], F[j])

\* C1's case: one player and two fixtures give two rows
C1_Witness ==
  /\ Combined
  /\ Len(db["player_features"]) = 1
  /\ Len(db["fixture_features"]) = 2
  /\ Len(trainingData) = 2

\* C2: createTrainingDataset does not fail when player_features or
\* fixture_features is empty: it completes and returns and stores an empty
\* training set.  The driver rejects the insertMany of an empty array, so
\* TLC refutes this statement.
C2_EmptyInputCompletes ==
  ( /\ local.op = "createTrainingDataset"
    /\ ~local.rejected
    /\ (db["player_features"] = <<>> \/ db["fixture_features"] = <<>>) ) =>
    /\ ~local.threw
    /\ trainingData = <<>>
    /\ db["training_dataset"] = <<>>

\* the model on disk was trained on the training set now in the store, and
\* that set was built from the feature collections now in the store
TrainedOnStored ==
  /\ model.saved
  /\ model.inputs = prepareData(db["training_dataset"]).inputs
  /\ Len(db["training_dataset"]) =
       Len(db["player_features"]) * Len(db["fixture_features"])
  /\ \A k \in 1..Len(db["training_dataset"]) :
       \E i \in 1..Len(db["player_features"]),
          j \in 1..Len(db["fixture_features"]) :
            WithoutLabel(db["training_dataset"][k]) =
              PairRow(db["player_features"][i], db["fixture_features"][j])

\* the rows of the stored training set of the pair a prediction was asked for
RowsOfPrediction ==
  {k \in 1..Len(db["training_dataset"]) :
     /\ db["training_dataset"][k].playerId = predicted.playerId
     /\ db["training_dataset"][k].fixtureId = predicted.fixtureId}

\* C4: the vector prepareData builds for training has its eight fields in the
\* order of the vector predictPlayerPoints builds for inference, position by
\* position, and both have the model's declared input size 8.
C4_SameFieldOrder ==
  (predicted.made /\ TrainedOnStored) =>
    /\ Len(predicted.input) = inputShape
    /\ \A k \in 1..Len(model.inputs) : Len(model.inputs[k]) = inputShape
    /\ \A k \in RowsOfPrediction : model.inputs[k] = predicted.input

\* C4's case: a prediction for a pair the model was trained on, whose vector
\* has different values in its first two positions
C4_Witness ==
  /\ predicted.made
  /\ TrainedOnStored
  /\ RowsOfPrediction # {}
  /\ predicted.input[1] # predicted.input[2]

\* the derived collections with the labels of the training rows left out
Unlabelled(collections) ==
  [c \in DOMAIN collections |->
     IF c = "training_dataset" THEN Map(WithoutLabel, collections[c])
     ELSE collections[c]]

InTrace(event) == \E k \in 1..Len(trace) : trace[k] = event

LastEvent == IF trace = <<>> THEN <<"none">> ELSE trace[Len(trace)]

FetchOperations ==
  {"fetchAndStoreBootstrapStatic", "fetchAndStoreFixtures",
   "fetchAndStorePlayerSummary", "fetchAndStoreGameweekLive"}

\* the kinds of operation a fetchAndStore operation awaits
FetchOperationKinds ==
  {"call", "deleteMany", "insertOne", "insertMany", "updateOne"}

\* an API fetch or a store write failed inside a fetchAndStore operation of
\* the current run
FetchErrorLogged == \E operation \in FetchOperations : InTrace(Logged(operation))

\* C3, as stated: a failing API fetch or store write inside a fetchAndStore
\* operation aborts the collection stage, which fails; the run does not carry
\* on to processing.  TLC refutes this statement.
C3_FetchFailureAbortsStage ==
  FetchErrorLogged =>
    /\ ~InTrace(Ended("fetchAllData"))
    /\ ~InTrace(Started("processPlayerData"))

\* C3, amended: a failing API fetch or store write inside a fetchAndStore
\* operation is caught and logged by that operation; it never makes
\* fetchAllData fail, which only the find on the players collection does, and
\* a run that has left fetchAllData without that find failing has seen
\* fetchAllData return.
C3_FetchFailureIsLogged ==
  /\ \A kind \in FetchOperationKinds :
       ~InTrace(Failed("fetchAllData", kind))
  /\ ( /\ InTrace(Started("fetchAllData"))
       /\ pc \notin {"fetchAndStoreFixtures", "findPlayers",
                     "fetchAndStorePlayerSummary"}
       /\ ~InTrace(Failed("fetchAllData", "find")) ) =>
       InTrace(Ended("fetchAllData"))

\* C3's case: processing has started in a run whose collection stage logged
\* a failed fetch or store write
C3_Witness ==
  /\ FetchErrorLogged
  /\ InTrace(Started("processPlayerData"))
  /\ faults > 0

\* the stages of a run, in the order of main(), processData and
\* engineerFeatures
StageOrder ==
  << "fetchAllData", "processPlayerData", "processFixtureData",
     "processTeamData", "createPlayerFeatures", "createFixtureFeatures",
     "createTrainingDataset", "trainModel" >>

StageIndex(stage) == CHOOSE i \in 1..Len(StageOrder) : StageOrder[i] = stage

IsStageEvent(event) == event[1] \in {"start", "end", "fail"}

\* the starts, ends and failures of stages in the current run
StageTrace == SelectSeq(trace, IsStageEvent)

\* C5: in every run the stages execute strictly one after another, each one
\* ended before the next starts, in the order fetchAllData, processData
\* (players, fixtures, teams), engineerFeatures (players, fixtures),
\* createTrainingDataset, trainModel; and no stage starts after a stage of
\* the same run has failed.
C5_StagesInSequence ==
  \A k \in 1..Len(StageTrace) :
     LET event == StageTrace[k]
     IN  /\ event[1] = "start" =>
              IF k = 1 THEN event[2] \in {"fetchAllData", "createTrainingDataset"}
              ELSE /\ StageIndex(event[2]) > 1
                   /\ StageTrace[k - 1] =
                        Ended(StageOrder[StageIndex(event[2]) - 1])
         /\ event[1] \in {"end", "fail"} =>
              k > 1 /\ StageTrace[k - 1] = Started(event[2])
         /\ event[1] = "fail" => k = Len(StageTrace) /\ pc = "failed"

\* C5's case: a run that ended when its third stage failed
C5_Witness ==
  /\ InTrace(Ended("processPlayerData"))
  /\ LastEvent[1] = "fail"
  /\ LastEvent[2] = "processFixtureData"
  /\ pc = "failed"

\* the rows createTrainingDataset derives from the feature collections in d,
\* labels aside
PairRows(d) ==
  LET n == Len(d["player_features"]) * Len(d["fixture_features"])
  IN  Map(WithoutLabel,
          combinePlayerAndFixtureData(d["player_features"],
                                      d["fixture_features"],
                                      [k \in 1..n |-> Zero]))

\* C6: after a successful run of a processing or feature stage its output
\* collection holds exactly the documents derived from the current input,
\* one for each input entity, and no document left from an earlier run.
C6_OutputIsDerivedFromInput ==
  /\ InTrace(Ended("processPlayerData")) =>
       db["processed_players"] = Map(processPlayer, db["player_summaries"])
  /\ InTrace(Ended("processFixtureData")) =>
       db["processed_fixtures"] = Map(processFixture, db["fixtures"])
  /\ InTrace(Ended("processTeamData")) =>
       db["processed_teams"] = Map(processTeam, db["teams"])
  /\ InTrace(Ended("createPlayerFeatures")) =>
       db["player_features"] = Map(playerFeature, db["processed_players"])
  /\ InTrace(Ended("createFixtureFeatures")) =>
       db["fixture_features"] = fixtureFeatures(db)
  /\ InTrace(Ended("createTrainingDataset")) =>
       Map(WithoutLabel, db["training_dataset"]) = PairRows(db)

\* C6's case: the second run fetched world 2 and has processed its fixtures,
\* while the processed teams are still those the first run made of world 1
C6_Witness ==
  /\ runs = 2
  /\ world = 2
  /\ LastEvent = Ended("processFixtureData")
  /\ db["processed_teams"] = Map(processTeam, Bootstrap(1).teams)
  /\ db["processed_fixtures"] = Map(processFixture, FixturesOf(2))

\* the collection each stage rebuilds
OutputOf ==
  [ processPlayerData |-> "processed_players",
    processFixtureData |-> "processed_fixtures",
    processTeamData |-> "processed_teams",
    createPlayerFeatures |-> "player_features",
    createFixtureFeatures |-> "fixture_features",
    createTrainingDataset |-> "training_dataset" ]

C9_EmptyHistoryZeroes ==
  (Engineered /\ ProcessedPlayer.history = <<>>) =>
    /\ PlayerFeatures.recentFormScore = Zero
    /\ PlayerFeatures.consistencyScore = Zero
    /\ PlayerFeatures.formTrend = Zero
    /\ PlayerFeatures.injuryProneness = Zero

\* C10: for a player with an empty history and zero minutes,
\* bonusPointsPerGame, teamPerformanceImpact, difficultyAdjustedPerformance,
\* cleanSheetContribution, savePercentage and goalContributionPerGame are
\* each a defined number.  The code divides by history.length in three of
\* them and reads a saves property no processed player has, so TLC refutes
\* this statement.
C10_RatioFeaturesDefined ==
  (Engineered /\ ProcessedPlayer.history = <<>>
              /\ ProcessedPlayer.minutesPlayed = Zero) =>
    /\ IsNum(PlayerFeatures.bonusPointsPerGame)
    /\ IsNum(PlayerFeatures.teamPerformanceImpact)
    /\ IsNum(PlayerFeatures.difficultyAdjustedPerformance)
    /\ IsNum(PlayerFeatures.cleanSheetContribution)
    /\ IsNum(PlayerFeatures.savePercentage)
    /\ IsNum(PlayerFeatures.goalContributionPerGame)

\* the summary has been through processPlayerData's map
Processed == pc \in {"processed", "engineered"}

\* C11: for every player summary whose history is empty (and, for the
\* fixture and prior-season aggregates, whose fixtures and history_past are
\* empty too), processPlayerData stores totalPoints, averagePoints, form,
\* minutesPlayed, minutesPerGame, goalsScored, goalsPerGame, assists,
\* assistsPerGame, cleanSheets, goalsConceded, xG, xA, xGI,
\* upcomingFixtureDifficulty and lastSeasonPoints as 0 and
\* seasonOnSeasonPerformance as 1.  The code divides the three expected-stat
\* sums by history.length without a guard, which is 0 / 0 = NaN, so TLC
\* refutes this statement.
C11_EmptyHistoryAggregatesZero ==
  (/\ Processed
   /\ ProcessedPlayer.history = <<>>
   /\ ProcessedPlayer.fixtures = <<>>
   /\ ArrOrEmpty(subject, "history_past") = <<>>) =>
    /\ \A field \in {"totalPoints", "averagePoints", "form", "minutesPlayed",
                     "minutesPerGame", "goalsScored", "goalsPerGame",
                     "assists", "assistsPerGame", "cleanSheets",
                     "goalsConceded", "xG", "xA", "xGI",
                     "upcomingFixtureDifficulty", "lastSeasonPoints"} :
          ProcessedPlayer[field] = Zero
    /\ ProcessedPlayer.seasonOnSeasonPerformance = I(1)

\* the stored field of every sumStat(identifier, team) call
StatFields ==
  { <<"homeGoals", "goals_scored", "h">>, <<"awayGoals", "goals_scored", "a">>,
    <<"homeAssists", "assists", "h">>, <<"awayAssists", "assists", "a">>,
    <<"homeOwnGoals", "own_goals", "h">>, <<"awayOwnGoals", "own_goals", "a">>,
    <<"homePenaltiesSaved", "penalties_saved", "h">>,
    <<"awayPenaltiesSaved", "penalties_saved", "a">>,
    <<"homePenaltiesMissed", "penalties_missed", "h">>,
    <<"awayPenaltiesMissed", "penalties_missed", "a">>,
    <<"homeYellowCards", "yellow_cards", "h">>,
    <<"awayYellowCards", "yellow_cards", "a">>,
    <<"homeRedCards", "red_cards", "h">>, <<"awayRedCards", "red_cards", "a">>,
    <<"homeSaves", "saves", "h">>, <<"awaySaves", "saves", "a">>,
    <<"homeBonus", "bonus", "h">>, <<"awayBonus", "bonus", "a">>,
    <<"homeBps", "bps", "h">>, <<"awayBps", "bps", "a">> }

\* the integer total of the values of a list of stat items
RECURSIVE ValueTotal(_)
ValueTotal(items) ==
  IF items = <<>> THEN 0
  ELSE items[1].value.n + ValueTotal(Tail(items))

\* the values a raw fixture lists for a side under an identifier
ListedTotal(fixture, identifier, team) ==
  IF "stats" \in fixture.absent THEN 0
  ELSE LET hits == {i \in 1..Len(fixture.stats) :
                      fixture.stats[i].identifier = identifier}
       IN  IF hits = {} THEN 0
           ELSE LET entry == fixture.stats[CHOOSE i \in hits : TRUE]
                IN  IF team \in entry.absent THEN 0
                    ELSE ValueTotal(entry[team])

\* C12: for every fixture, stat identifier and side, sumStat returns the sum
\* of the values listed for that side under that identifier, and 0 when the
\* fixture has no stats, no entry with that identifier, or no list for that
\* side.
C12_SumStatIsListedTotal ==
  FixtureProcessed =>
    \A t \in StatFields :
      ProcessedFixture[t[1]] = I(ListedTotal(subject, t[2], t[3]))

\* a fixture whose home goals are two items of total 3 and whose goals entry
\* has no away list, with a yellow-card entry and no red-card entry
C12_Witness ==
  /\ FixtureProcessed
  /\ "stats" \notin subject.absent
  /\ Len(subject.stats) = 2
  /\ subject.stats[1].identifier = "goals_scored"
  /\ subject.stats[1].absent = {"a"}
  /\ Len(subject.stats[1].h) = 2
  /\ ProcessedFixture.homeGoals = I(3)
  /\ ProcessedFixture.awayGoals = Zero
  /\ ProcessedFixture.homeYellowCards = I(1)
  /\ ProcessedFixture.homeRedCards = Zero

\* the goals of a processed fixture as integers
HomeGoals == ProcessedFixture.homeGoals.n

AwayGoals == ProcessedFixture.awayGoals.n

\* C13: in every fixture feature document actualResult, actualGoals and
\* actualCards are non-null exactly when the fixture's finished flag is set
\* and null otherwise; when set, actualResult is H if homeGoals > awayGoals,
\* A if homeGoals < awayGoals and D if they are equal, actualGoals holds the
\* two goal totals and actualCards the two card totals.
C13_ActualFieldsFollowFinished ==
  FixtureEngineered =>
    IF subject.finished
    THEN /\ FixtureFeatures.actualResult \in {"H", "A", "D"}
         /\ FixtureFeatures.actualResult = "H" <=> HomeGoals > AwayGoals
         /\ FixtureFeatures.actualResult = "A" <=> HomeGoals < AwayGoals
         /\ FixtureFeatures.actualResult = "D" <=> HomeGoals = AwayGoals
         /\ ~FixtureFeatures.actualGoals.isNull
         /\ FixtureFeatures.actualGoals.home = ProcessedFixture.homeGoals
         /\ FixtureFeatures.actualGoals.away = ProcessedFixture.awayGoals
         /\ ~FixtureFeatures.actualCards.isNull
         /\ FixtureFeatures.actualCards.yellow =
              I(ListedTotal(subject, "yellow_cards", "h")
                + ListedTotal(subject, "yellow_cards", "a"))
         /\ FixtureFeatures.actualCards.red =
              I(ListedTotal(subject, "red_cards", "h")
                + ListedTotal(subject, "red_cards", "a"))
    ELSE /\ FixtureFeatures.actualResult = "null"
         /\ FixtureFeatures.actualGoals = NullGoals
         /\ FixtureFeatures.actualCards = NullCards

\* a finished fixture drawn 2-2 with two yellow cards and a red one
C13_Witness ==
  /\ FixtureEngineered
  /\ subject.finished
  /\ HomeGoals = 2
  /\ AwayGoals = 2
  /\ FixtureFeatures.actualResult = "D"
  /\ FixtureFeatures.actualCards.yellow = I(2)
  /\ FixtureFeatures.actualCards.red = I(1)

\* main() has returned: its try block completed or its catch block ran
RunEnded == pc \in {"done", "failed"}

\* C14: every run of main that has connected to the database disconnects
\* from it before it ends, whether the stages succeed or one of them fails.
\* mongoClient.close() is the last statement of the try block, so a run whose
\* stage rejects goes to the catch block and ends with the connection open:
\* TLC refutes this statement.
C14_EndedRunHasDisconnected == RunEnded => ~connected

\* the stages main() runs only when the data does not exist
DataStages ==
  { "fetchAllData", "processPlayerData", "processFixtureData",
    "processTeamData", "createPlayerFeatures", "createFixtureFeatures" }

\* the current run logged this outcome of checkDataExists
CheckedAs(dataExists) == InTrace(Checked(dataExists))

\* C15: checkDataExists returns true exactly when each of bootstrap_static,
\* fixtures, player_summaries, processed_players, player_features and
\* fixture_features holds at least one document; main runs fetchAllData,
\* processData and engineerFeatures if and only if it returned false, and on
\* either branch goes on to createTrainingDataset and then trainModel (a
\* stage that rejects ends the run where it is).
C15_DataStagesIffDataMissing ==
  /\ checkDataExists(db) <=>
       \A c \in { "bootstrap_static", "fixtures", "player_summaries",
                  "processed_players", "player_features", "fixture_features" } :
          Len(db[c]) >= 1
  /\ pc = "fetchAndStoreBootstrapStatic" => LastEvent = Checked(FALSE)
  /\ \A stage \in DataStages : InTrace(Started(stage)) => CheckedAs(FALSE)
  /\ CheckedAs(TRUE) => StageTrace = <<>> \/ StageTrace[1] = Started("createTrainingDataset")
  /\ CheckedAs(FALSE) => StageTrace = <<>> \/ StageTrace[1] = Started("fetchAllData")
  /\ pc = "createTrainingDataset" =>
       \/ LastEvent = Checked(TRUE)
       \/ CheckedAs(FALSE) /\ LastEvent = Ended("createFixtureFeatures")
  /\ pc = "trainModel" => LastEvent = Ended("createTrainingDataset")
  /\ pc \in {"close", "done"} =>
       /\ InTrace(Ended("createTrainingDataset"))
       /\ LastEvent = Ended("trainModel")
       /\ CheckedAs(FALSE) =>
            \A stage \in DataStages : InTrace(Ended(stage))

\* a run that found the data of an earlier run and went straight to the
\* training set and the model
C15_Witness ==
  /\ runs = 2
  /\ pc = "done"
  /\ CheckedAs(TRUE)
  /\ checkDataExists(db)
  /\ StageTrace[1] = Started("createTrainingDataset")
  /\ LastEvent = Ended("trainModel")

\* fetchAndStoreBootstrapStatic has returned and no call of the run so far
\* was rejected by the API or the store
BootstrapStored == pc = "fetchAndStoreFixtures" /\ faults = 0

\* the five collections hold the bootstrap document data and its lists
HoldsBootstrap(d, data) ==
  /\ d["bootstrap_static"] = <<data>>
  /\ d["teams"] = data.teams
  /\ d["players"] = data.elements
  /\ d["gameweeks"] = data.events
  /\ d["elements_types"] = data.element_types

\* C16: when the bootstrap fetch succeeds, fetchAndStoreBootstrapStatic
\* replaces bootstrap_static with the fetched document and teams, players,
\* gameweeks and elements_types with the fetched teams, elements, events and
\* element_types lists.  insertMany rejects an empty list, so a fetched
\* document with an empty events list leaves elements_types as it was: TLC
\* refutes this statement.
C16_BootstrapReplacesCollections ==
  BootstrapStored => HoldsBootstrap(db, Bootstrap(world))

IsRequest(event) == event[1] = "request"

\* the API requests of the current run, in the order they were made
Requests == SelectSeq(trace, IsRequest)

\* the requests of a complete fetchAllData over the players collection of d
AllRequests(d) ==
  << Requested("getBootstrapStatic", 0), Requested("getFixtures", 0) >>
    \o [i \in 1..Len(d["players"]) |->
          Requested("getPlayerSummary", d["players"][i].id.n)]
    \o [gameweek \in 1..38 |-> Requested("getGameweekLive", gameweek)]

IsPrefix(s, t) == Len(s) <= Len(t) /\ s = SubSeq(t, 1, Len(s))

\* the run has entered fetchAllData and is no longer inside it
LeftFetchAllData ==
  /\ InTrace(Started("fetchAllData"))
  /\ pc \notin {"fetchAndStoreFixtures", "findPlayers",
                "fetchAndStorePlayerSummary"}

\* the find on the players collection rejected
FindRejected == InTrace(Failed("fetchAllData", "find"))

\* C17, as stated: fetchAllData requests the bootstrap data, the fixtures,
\* one player summary per document of the players collection and the live
\* data of gameweeks 1 to 38, and every one of these requests is made: a
\* run that has left fetchAllData has made them all.  TLC refutes this
\* statement: a rejected find on the players collection ends fetchAllData
\* after the fixtures request.
C17_EveryRequestIsMade ==
  LeftFetchAllData => Requests = AllRequests(db)

\* C17, amended: the requests are made in the order bootstrap data,
\* fixtures, one player summary per document of the players collection in
\* the collection's order, gameweeks 1 to 38 in ascending order, each exactly
\* once; a request that fails does not stop the later ones, and all of them
\* have been made when fetchAllData is left, unless the find on the players
\* collection rejected, in which case only the first two were made.
C17_RequestsInOrder ==
  /\ IsPrefix(Requests, AllRequests(db))
  /\ LeftFetchAllData =>
       IF FindRejected
       THEN Requests = SubSeq(AllRequests(db), 1, 2)
       ELSE Requests = AllRequests(db) /\ (pc # "failed" => InTrace(Ended("fetchAllData")))

\* C17's case: fetchAllData has returned after a gameweek request failed, in
\* a run with two players and so 42 requests
C17_Witness ==
  /\ InTrace(Ended("fetchAllData"))
  /\ InTrace(Logged("fetchAndStoreGameweekLive"))
  /\ Len(db["players"]) = 2
  /\ Len(Requests) = 42
  /\ Requests[4] = Requested("getPlayerSummary", 2)
  /\ Requests[42] = Requested("getGameweekLive", 38)

\* what a history entry's string contributes when a missing or unparsable
\* string counts as 0
ParsedOrZero(s) ==
  IF s = UndefStr \/ ~IsNum(parseFloat(s)) THEN Zero ELSE parseFloat(s)

RECURSIVE ParsedTotal(_, _)
ParsedTotal(history, field) ==
  IF history = <<>> THEN Zero
  ELSE JsAdd(ParsedOrZero(history[1][field]),
             ParsedTotal(Tail(history), field))

ParsedMean(history, field) ==
  JsDiv(ParsedTotal(history, field), I(Len(history)))

\* C18: for a player with at least one history entry, xG, xA and xGI are the
\* means over all history entries of the parsed expected_goals,
\* expected_assists and expected_goal_involvements strings, where an entry
\* whose string is missing or does not parse as a number contributes 0.
\* The code substitutes "0" only for a missing or empty string; parseFloat of
\* any other unparsable string is NaN, which the sum keeps, so TLC refutes
\* this statement.
C18_ExpectedStatsAreParsedMeans ==
  (Processed /\ ProcessedPlayer.history # <<>>) =>
    /\ ProcessedPlayer.xG =
         ParsedMean(ProcessedPlayer.history, "expected_goals")
    /\ ProcessedPlayer.xA =
         ParsedMean(ProcessedPlayer.history, "expected_assists")
    /\ ProcessedPlayer.xGI =
         ParsedMean(ProcessedPlayer.history, "expected_goal_involvements")

\* every game of the processed player's history has its total_points
PointsRecorded ==
  \A i \in 1..Len(ProcessedPlayer.history) :
     IsNum(ProcessedPlayer.history[i].total_points)

\* C19: calculateSeasonImprovement guards its division, replacing a zero
\* denominator (no last-season games, or a last-season average of 0) by 1,
\* so that seasonOnSeasonImprovement is always a defined finite number.  The
\* code guards the two lengths only and then divides by lastSeasonAvg itself,
\* which is 0 for a player without last-season games: TLC refutes this
\* statement.
C19_SeasonImprovementIsFinite ==
  (Engineered /\ PointsRecorded) =>
    IsFinite(PlayerFeatures.seasonOnSeasonImprovement)

\* the games of the current season: those of a round after 38
InCurrentSeason(game) == game.round.n > 38

\* the last min(5, n) of the n current-season games, oldest first
TrendSlice ==
  LET season == SelectSeq(ProcessedPlayer.history, InCurrentSeason)
      n      == Len(season)
  IN  SubSeq(season, (IF n < 5 THEN 0 ELSE n - 5) + 1, n)

\* the weights 0.10, 0.15, 0.20, 0.25, 0.30 in twentieths
Twentieths == <<2, 3, 4, 5, 6>>

\* twenty times the weighted points of the first i games of a slice
RECURSIVE WeightedTotal(_, _)
WeightedTotal(slice, i) ==
  IF i = 0 THEN 0
  ELSE slice[i].total_points.n * Twentieths[i] + WeightedTotal(slice, i - 1)

\* C20: calculateFormTrend returns the sum over the last min(5, n)
\* current-season games, oldest to newest, of points times weights[i], where
\* i is the game's index in that slice and weights is [0.10, 0.15, 0.20,
\* 0.25, 0.30]; with fewer than 5 games the first n weights are used.
C20_FormTrendWeightsLeftToRight ==
  (Engineered /\ PointsRecorded) =>
    PlayerFeatures.formTrend =
      Rat(WeightedTotal(TrendSlice, Len(TrendSlice)), 20)

\* a current season of seven games: the trend is over the third to the
\* seventh, 9 * 0.10 + 1 * 0.15 + 12 * 0.20 + 5 * 0.25 + 3 * 0.30 = 5.6
C20_Witness ==
  /\ Engineered
  /\ PointsRecorded
  /\ Len(SelectSeq(ProcessedPlayer.history, InCurrentSeason)) = 7
  /\ Len(TrendSlice) = 5
  /\ TrendSlice[1].total_points = I(9)
  /\ PlayerFeatures.formTrend = Rat(28, 5)

\* the last min(5, n) of the n entries of the processed player's history
RecentGames ==
  LET n == Len(ProcessedPlayer.history)
  IN  SubSeq(ProcessedPlayer.history, (IF n < 5 THEN 0 ELSE n - 5) + 1, n)

\* the integer total of total_points over games, an entry without the
\* property counting 0
RECURSIVE PointsTotal(_)
PointsTotal(games) ==
  IF games = <<>> THEN 0
  ELSE (IF IsNum(games[1].total_points) THEN games[1].total_points.n ELSE 0)
         + PointsTotal(Tail(games))

\* C21: calculateRecentForm returns the mean of total_points over the last 5
\* history entries, or over all entries when there are fewer than 5, and 0
\* for an empty or missing history; the history 2, 4, 6, 8, 10 gives 6.
C21_RecentFormIsMeanOfLastFive ==
  Engineered =>
    /\ PlayerFeatures.recentFormScore =
         IF RecentGames = <<>> THEN Zero
         ELSE Rat(PointsTotal(RecentGames), Len(RecentGames))
    /\ "history" \in subject.absent => PlayerFeatures.recentFormScore = Zero
    /\ subject.history = RisingSeason /\ "history" \notin subject.absent =>
         PlayerFeatures.recentFormScore = I(6)

\* a history of seven games, whose mean over all games (38 / 7) differs from
\* the mean of its last five (9, 1, 12, 5, 3)
C21_Witness ==
  /\ Engineered
  /\ Len(ProcessedPlayer.history) = 7
  /\ PointsTotal(ProcessedPlayer.history) = 38
  /\ Len(RecentGames) = 5
  /\ PlayerFeatures.recentFormScore = I(6)

\* the first min(5, n) of the processed player's n upcoming fixtures: the
\* fixtures calculateUpcomingFixtureDifficulty takes into account
NextFixtures ==
  LET n == Len(ProcessedPlayer.fixtures)
  IN  SubSeq(ProcessedPlayer.fixtures, 1, IF n < 5 THEN n ELSE 5)

\* the integer total of the difficulty values of fixtures, a fixture
\* without the property counting 0
RECURSIVE DifficultyTotal(_)
DifficultyTotal(fixtures) ==
  IF fixtures = <<>> THEN 0
  ELSE (IF IsNum(fixtures[1].difficulty) THEN fixtures[1].difficulty.n ELSE 0)
         + DifficultyTotal(Tail(fixtures))

\* C22: calculateUpcomingFixtureDifficulty returns the mean of the
\* difficulty values of the fixtures it takes into account, the player's
\* next 5 upcoming fixtures or all of them when there are fewer, and 0 when
\* there are none.  The code divides the sum by 5 however many fixtures it
\* summed, so TLC refutes this statement for a player with one to four
\* upcoming fixtures.
C22_UpcomingDifficultyIsMean ==
  Engineered =>
    PlayerFeatures.upcomingFixtureDifficulty =
      IF NextFixtures = <<>> THEN Zero
      ELSE Rat(DifficultyTotal(NextFixtures), Len(NextFixtures))

\* the rank createFixtureFeatures passes for the team of that id: the
\* position of the processed team, or 0 when there is no such team
RankOf(teamId) ==
  LET hits == {i \in 1..Len(ProcessedTeams) : ProcessedTeams[i].id = teamId}
  IN  IF hits = {} THEN 0
      ELSE LET position == ProcessedTeams[CHOOSE i \in hits : TRUE].position
           IN  IF IsNum(position) THEN position.n ELSE 0

\* max(0.05, 1 - (rank - 1) / 19) for an integer rank: (20 - rank) / 19 is at
\* least 1 / 20 exactly when rank is at most 19
StrengthOfRank(rank) ==
  IF rank <= 19 THEN Rat(20 - rank, 19) ELSE Rat(1, 20)

\* C23: calculatePositionStrength(rank) equals max(0.05, 1 - (rank - 1) / 19):
\* it is 1 for rank 1, exactly 0.05 for rank 20, and never below 0.05 for
\* any rank createFixtureFeatures passes.
C23_PositionStrengthFloored ==
  FixtureEngineered =>
    LET home == RankOf(ProcessedFixture.teamH)
        away == RankOf(ProcessedFixture.teamA)
    IN  /\ FixtureFeatures.homePositionStrength = StrengthOfRank(home)
        /\ FixtureFeatures.awayPositionStrength = StrengthOfRank(away)
        /\ home = 1 => FixtureFeatures.homePositionStrength = I(1)
        /\ away = 20 => FixtureFeatures.awayPositionStrength = Rat(1, 20)
        /\ \A strength \in { FixtureFeatures.homePositionStrength,
                             FixtureFeatures.awayPositionStrength } :
              IsNum(strength) /\ strength.n * 20 >= strength.d

\* the leader at home to the team of rank 20
C23_Witness ==
  /\ FixtureEngineered
  /\ ProcessedFixture.teamH = I(11)
  /\ ProcessedFixture.teamA = I(30)
  /\ RankOf(I(11)) = 1
  /\ RankOf(I(30)) = 20
  /\ FixtureFeatures.homePositionStrength = I(1)
  /\ FixtureFeatures.awayPositionStrength = Rat(1, 20)

\* the code isDerbyMatch uses for the team of that id: the code of the
\* processed team, or 0 when there is no such team
CodeOf(teamId) ==
  LET hits == {i \in 1..Len(ProcessedTeams) : ProcessedTeams[i].id = teamId}
  IN  IF hits = {} THEN 0
      ELSE LET code == ProcessedTeams[CHOOSE i \in hits : TRUE].code
           IN  IF IsNum(code) THEN code.n ELSE 0

\* the codes of the two teams of the processed fixture are at most 3 apart
CodesWithinThree ==
  LET home == CodeOf(ProcessedFixture.teamH)
      away == CodeOf(ProcessedFixture.teamA)
  IN  home - away \in -3..3

\* C24: for every fixture, isDerby is true if and only if the absolute
\* difference of the home team's code and the away team's code is at most 3
\* (codes 3 and 6 give true, codes 3 and 20 give false); a team that is not
\* among the processed teams has code 0.
C24_DerbyIffCodesWithinThree ==
  FixtureEngineered =>
    /\ FixtureFeatures.isDerby <=> CodesWithinThree
    /\ ( CodeOf(ProcessedFixture.teamH) = 3
         /\ CodeOf(ProcessedFixture.teamA) = 6 ) => FixtureFeatures.isDerby
    /\ ( CodeOf(ProcessedFixture.teamH) = 3
         /\ CodeOf(ProcessedFixture.teamA) = 20 ) => ~FixtureFeatures.isDerby

\* the team of code 3 at home to the team of code 6: a derby at the threshold
C24_Witness ==
  /\ FixtureEngineered
  /\ ProcessedFixture.teamH = I(13)
  /\ ProcessedFixture.teamA = I(16)
  /\ CodeOf(I(13)) = 3
  /\ CodeOf(I(16)) = 6
  /\ FixtureFeatures.isDerby

\* the player features the current player summaries derive to
DerivedPlayerFeatures(d) ==
  Map(playerFeature, Map(processPlayer, d["player_summaries"]))

\* the fixture features the current fixtures and teams derive to
DerivedFixtureFeatures(d) ==
  LET teams == Map(processTeam, d["teams"])
      Feature(fixture) == fixtureFeature(fixture, teams)
  IN  Map(Feature, Map(processFixture, d["fixtures"]))

\* C25: whenever main starts createTrainingDataset, player_features and
\* fixture_features hold what the current contents of the raw collections
\* derive to, whether this run rebuilt them or skipped the data stages.
C25_FeaturesDeriveFromRawData ==
  pc = "createTrainingDataset" =>
     /\ db["player_features"] = DerivedPlayerFeatures(db)
     /\ db["fixture_features"] = DerivedFixtureFeatures(db)

\* the collections each of the two operations writes
WrittenBy ==
  [ fetchAndStoreBootstrapStatic |->
      {"bootstrap_static", "teams", "players", "gameweeks", "elements_types"},
    fetchAndStoreFixtures |-> {"fixtures"} ]

\* the step made by the operation ended in its catch block, with the
\* rejection of the API request
RequestFailed(operation) ==
  /\ pc = operation
  /\ Len(trace') >= 2
  /\ trace'[Len(trace') - 1] = Thrown("call")
  /\ trace'[Len(trace')] = Logged(operation)

\* C26: when the API request of fetchAndStoreBootstrapStatic or of
\* fetchAndStoreFixtures fails, every collection the operation writes is
\* left as it was: no deleteMany is issued before the fetch has succeeded.
C26_FailedRequestWritesNothing ==
  [][ \A operation \in DOMAIN WrittenBy :
        RequestFailed(operation) =>
          \A c \in WrittenBy[operation] : db'[c] = db[c] ]_vars

\* C26's case: in a second run getBootstrapStatic was rejected, and the
\* teams and players a first run stored are still in the store
C26_Witness ==
  /\ runs = 2
  /\ pc = "fetchAndStoreFixtures"
  /\ trace[Len(trace) - 1] = Thrown("call")
  /\ LastEvent = Logged("fetchAndStoreBootstrapStatic")
  /\ db["bootstrap_static"] # <<>>
  /\ db["teams"] # <<>>
  /\ db["players"] # <<>>

BootstrapCollections ==
  {"bootstrap_static", "teams", "players", "gameweeks", "elements_types"}

\* no bootstrap snapshot has been stored at all
NoSnapshot(d) == \A c \in BootstrapCollections : d[c] = <<>>

\* C27: after fetchAndStoreBootstrapStatic returns, with or without an error,
\* bootstrap_static, teams, players, gameweeks and elements_types all hold one
\* and the same bootstrap snapshot (or none of them holds any).  The ten
\* writes are separate operations in one try block, so a rejected write
\* leaves the collections before it on the new snapshot and those after it
\* empty or on the old one: TLC refutes this statement.
C27_BootstrapCollectionsAgree ==
  pc = "fetchAndStoreFixtures" =>
     \/ NoSnapshot(db)
     \/ \E w \in Worlds : HoldsBootstrap(db, Bootstrap(w))

\* C28: in a run of main whose checkDataExists returned true, no step
\* changes a collection other than training_dataset: the raw, the processed
\* and the feature collections stay as the run found them.
C28_ExistingDataIsLeftAlone ==
  [][ CheckedAs(TRUE) =>
        \A c \in Collections \ {"training_dataset"} : db'[c] = db[c] ]_vars

\* C28's case: a second run found the data of the first, skipped the data
\* stages and has rebuilt training_dataset from the features it found
C28_Witness ==
  /\ runs = 2
  /\ pc = "trainModel"
  /\ CheckedAs(TRUE)
  /\ LastEvent = Ended("createTrainingDataset")
  /\ db["training_dataset"] # <<>>
  /\ db["player_features"] = DerivedPlayerFeatures(db)

====
